---- MODULE Spec2Model ----
(***************************************************************************)
(* A model of the decentralized crawler (src/src/v3): the shared frontier  *)
(* (a Redis sorted set), the per-host politeness leases (SET NX EX), the   *)
(* requeue helper, the bloom-style URL filter (a Redis bitmap) and the     *)
(* batching storage writer (two MongoDB collections).                      *)
(*                                                                         *)
(* Nine specifications share the variables:                               *)
(*   Spec       the crawl: master seeding, the workers' pull / lease /     *)
(*              requeue / crawl loop, the clock and the host delays;       *)
(*   SpecBloom  filter clients issuing add, add_batch and contains, one    *)
(*              Redis pipeline per step;                                   *)
(*   SpecStore  storage writers issuing add_page and flush_batch, one      *)
(*              MongoDB operation per step;                                *)
(*   SpecDelay  the crawl-delay keys written, expired and resolved by      *)
(*              get_crawl_delay;                                           *)
(*   SpecWorker the worker's start() loop, one call per step, with its     *)
(*              termination paths, signals and the master's shutdown flag. *)
(*   SpecFix    the storage writer followed by the reconciliation tool     *)
(*              (utils/fix_collection_sync.py) over the two collections;   *)
(*   SpecRobots the robots.txt handler's can_fetch_batch with its local    *)
(*              and Redis caches, and the delay it records;                *)
(*   SpecGather the fetch tasks of one such batch under asyncio.gather,    *)
(*              one task ending per step;                                  *)
(*   SpecLinks  the worker's process_links, one filter add and one         *)
(*              frontier push per step.                                    *)
(*                                                                         *)
(* Time is counted in ticks of 1/TicksPerSec seconds, so that fractional   *)
(* crawl delays (0.5 s, 1.5 s) are representable.  Priorities are the      *)
(* integer-valued floats the code produces.                                *)
(***************************************************************************)
EXTENDS Integers, Sequences, FiniteSets, TLC

(***************************************************************************)
(* Bounds of the model.                                                    *)
(***************************************************************************)
NumWorkers == 2
NumUrls == 3
MaxTime == 3
TicksPerSec == 2
MaxRequeue == 1
MaxDelaySets == 1
MaxSeeds == 2
NumHtml == 2
MaxIds == 3
NumPageUrls == 2
BatchSize == 2

Workers == 1..NumWorkers
Urls == 1..NumUrls
Htmls == 1..NumHtml
PageUrls == 1..NumPageUrls

EmptyMap == [x \in {} |-> 0]
Max(a, b) == IF a >= b THEN a ELSE b

(***************************************************************************)
(* URLs.  A URL is an identifier with the attributes the code reads from   *)
(* its text: the host key scheme://netloc, and the substrings the priority *)
(* heuristic looks for.                                                    *)
(***************************************************************************)
Hosts == {"a", "b"}
\* PolitenessManager._extract_domain: f"{scheme}://{netloc}"
ExtractDomain(u) == IF u <= 2 THEN "a" ELSE "b"
IndexUrls == {1}          \* url ends in '/' or '/index.html'
ContentUrls == {3}        \* url contains /blog/ /article/ /post/ /docs/
AuthUrls == {2}           \* url contains /login /signup /register /auth
LongUrls == {}            \* len(url) > 200
\* the anchors of the page at u, in document order, after _is_valid_url
LinksOf(u) == IF u = 1 THEN <<2, 3>> ELSE IF u = 2 THEN <<3>> ELSE <<>>

\* DecentralizedWorker._calculate_priority
CalculatePriority(u, depth) ==
    Max(100 - depth * 5
          + (IF u \in IndexUrls THEN 5 ELSE 0)
          + (IF u \in ContentUrls THEN 3 ELSE 0)
          - (IF u \in AuthUrls THEN 10 ELSE 0)
          - (IF u \in LongUrls THEN 10 ELSE 0), 1)

(***************************************************************************)
(* Frontier entries.  url_data is the dict {url, parent, depth, added_at}; *)
(* the sorted-set member is its JSON text, modelled as the tuple of the    *)
(* values in key order (a dict that also carries 'priority' serializes to  *)
(* a longer text).  parent 0 is the empty string of a seed.                *)
(***************************************************************************)
UrlData(u, parent, depth, t) ==
    [url |-> u, parent |-> parent, depth |-> depth, added_at |-> t]
JsonDumps(d) ==
    IF "priority" \in DOMAIN d
    THEN <<d.url, d.parent, d.depth, d.added_at, d.priority>>
    ELSE <<d.url, d.parent, d.depth, d.added_at>>
JsonLoads(s) ==
    IF Len(s) = 5
    THEN [url |-> s[1], parent |-> s[2], depth |-> s[3], added_at |-> s[4],
          priority |-> s[5]]
    ELSE [url |-> s[1], parent |-> s[2], depth |-> s[3], added_at |-> s[4]]

\* Redis ZADD key {member: score}: insert, or overwrite the score
ZAdd(f, m, p) == [x \in (DOMAIN f) \cup {m} |-> IF x = m THEN p ELSE f[x]]
ZRem(f, m) == [x \in (DOMAIN f) \ {m} |-> f[x]]
\* the members a ZPOPMIN would return
ZMinMembers(f) == {m \in DOMAIN f : \A x \in DOMAIN f : f[x] >= f[m]}
\* the members ZPOPMAX may return: those of maximal score
ZMaxMembers(f) == {m \in DOMAIN f : \A x \in DOMAIN f : f[x] <= f[m]}
\* a read of the top member that leaves it in the set (ZREVRANGE 0 0)
ZPeekMax(f, m) == f
\* Redis ZPOPMAX key 1: the sorted set after member m was popped
ZPopMax(f, m) == ZRem(f, m)

(***************************************************************************)
(* The approximate URL filter.  bits is the set of positions that are 1.   *)
(***************************************************************************)
BloomSize == 6
HashCount == 2
\* mmh3.hash(url, seed) % size, as a fixed function with collisions
Hash(u, i) == (u * (2 * i + 1) + i) % BloomSize
\* BloomFilter._get_positions
GetPositions(u) == {Hash(u, i) : i \in 0..(HashCount - 1)}
\* the GETBITs with any(bits) for all(bits)
AnyBits(b, u) == GetPositions(u) \cap b # {}
\* the pipelined GETBITs and all(bits)
AllBits(b, u) == GetPositions(u) \subseteq b
\* SETBIT of the first position only
SetFirstBit(b, u) == b \cup {Hash(u, 0)}
\* the bitmap rewritten to the positions of one url
ResetBits(b, u) == GetPositions(u)
\* the pipelined SETBITs of one url
SetBits(b, u) == b \cup GetPositions(u)

(***************************************************************************)
(* Politeness.  A delay is a number of ticks; 0 stands for an absent key.  *)
(***************************************************************************)
PriorityPenalty == 5
\* DecentralizedWorker.__init__: PolitenessManager(self.redis, default_delay=1.0)
DefaultDelay == TicksPerSec
\* the delays set_crawl_delay is called with: 0.5 s and 1.5 s
DelayChoices == {TicksPerSec \div 2, TicksPerSec + TicksPerSec \div 2}
\* Python int(delay): truncation towards zero, in whole seconds
LeaseSeconds(delay) == delay \div TicksPerSec
\* the smallest whole number of seconds that is >= delay
CeilSeconds(delay) == (delay + TicksPerSec - 1) \div TicksPerSec

NoLease == [set |-> FALSE, t |-> 0, delay |-> 0, ex |-> 0]
NoStats == [pages_stored |-> 0, bytes_original |-> 0, bytes_compressed |-> 0,
            batches_flushed |-> 0]
NoFlush == [before |-> 0, batch |-> {}, accepted |-> {}, state |-> "none"]
NoCall == [url |-> 0, res |-> FALSE, after |-> FALSE]
NoAddBatch == [called |-> FALSE, urls |-> {}, fresh |-> {}, ret |-> 0]
NoEntry == [json |-> <<>>, priority |-> 0]
NoGet == [host |-> "", res |-> 0]
NoCached == [content |-> 0, exp |-> 0]
NoLocal == [has |-> FALSE, parser |-> 0, fetched_at |-> 0]
NoBatch == [w |-> 0, urls |-> {}, results |-> EmptyMap, parsers |-> EmptyMap,
            cause |-> EmptyMap]
\* a fetch task that has not been created, and one in flight
NoTask == [st |-> "pending", https |-> "", http |-> "", file |-> 0]
\* no robots batch under way and none made
NoGather == [state |-> "idle", urls |-> {}, tasks |-> EmptyMap]
\* no process_links call under way and none made
NoLinks == [pos |-> "idle", new_links |-> << >>, i |-> 0, rr |-> EmptyMap,
            parent |-> 0, depth |-> 0, before |-> {}, pushed |-> {}, calls |-> 0]
\* DecentralizedWorker.__init__: self.stats
NoWorkerStats == [pages_crawled |-> 0, links_robots_blocked |-> 0, errors |-> 0,
                  timeouts |-> 0]

VARIABLES
    now,          \* the clock, in ticks
    frontier,     \* crawler:frontier: member -> score
    lock,         \* lock:{host}: the tick at which the key expires (0: never set)
    robotsDelay,  \* crawler:robots:delay:{host}
    domainState,  \* crawler:domain_state:{host} crawl_delay
    bits,         \* crawler:bloom
    pc,           \* each worker's position in its loop
    held,         \* the entry a worker popped: member text and score
    crawlDelay,   \* the delay a worker resolved for the held entry
    requeued,     \* stats['re_queued'] of each worker
    handed,       \* the urls handed to the storage writer
    seeds,        \* number of seed_urls iterations run
    lastSet,      \* history: per host, the last lease key created by can_crawl
    tooSoon,      \* history: per host, the gap lastSet was created after, if short
    live,         \* history: member -> times ZADD created it minus times popped
    bpc,          \* each filter client's position inside add()
    burl,         \* the url of the add() in progress
    bexists,      \* already_exists of the add() in progress
    added,        \* history: the urls whose add() or add_batch() has completed
    lastContains, \* history: each client's last contains() call and its result
    lastAddBatch, \* history: the last add_batch() call and what it returned
    metaDb,       \* the collection pages_metadata
    contentDb,    \* the collection pages_content
    nextId,       \* the ObjectId()s allocated so far
    spc,          \* each writer's position inside flush_batch
    metaBatch,    \* self.metadata_batch
    contentBatch, \* self.content_batch
    sstats,       \* self.stats of each writer
    fidx,         \* the next document of the metadata insert_many
    dupErr,       \* the metadata insert_many met a write error
    succIds,      \* successful_page_ids
    addRet,       \* history: what each writer's last add_page returned
    flushLog,     \* history: each writer's last flush_batch
    submitted,    \* history: the ids of the batches flush_batch was entered with
    setDelay,     \* history: per host, the delay set_crawl_delay was last called with
    lastGet,      \* history: the last get_crawl_delay call and what it returned
    wpc,          \* each worker's position in start()
    running,      \* self.running
    maxPages,     \* the max_pages argument of start(); 0 stands for None
    idleCount,    \* idle_count
    wstats,       \* self.stats of each worker
    shutdownFlag, \* crawler:shutdown: the tick at which the key expires (0: absent)
    atPost,       \* history: the workers in their loop when the flag was posted
    signals,      \* the signals, stop requests and flag posts delivered so far
    failures,     \* the errors met by the workers' iterations so far
    lastCan,      \* history: can_crawl returned true in the worker's last pull
    countedBusy,  \* history: a pull counted in idle_count had popped an entry
    stopReason,   \* history: why the worker left its loop
    robotsResults,\* history: robots_results of the worker's last process_links
    domainHash,   \* domain:{host} crawl_delay, written by the robots fetcher
    robotsCache,  \* robots_cache:{host}: the content and the tick it expires
    localCache,   \* self.cache of each worker's AsyncRobotsHandler
    lastBatch,    \* history: the last can_fetch_batch and the handler that ran it
    fetchedDelay, \* history: per host, the Crawl-delay of the robots.txt last retrieved
    batches,      \* the can_fetch_batch calls made so far
    fixRuns,      \* the runs of fix_collection_sync so far
    procLinks,    \* each worker's process_links call: its locals and what it pushed
    gather        \* each handler's asyncio.gather: the fetch tasks and their outcomes

\* the crawl's variables other than the filter bitmap
crawlVars == <<now, frontier, lock, robotsDelay, domainState, pc, held,
               crawlDelay, requeued, handed, seeds, lastSet, tooSoon, live>>
\* the filter clients' variables
bloomVars == <<bpc, burl, bexists, added, lastContains, lastAddBatch>>
\* the storage writers' variables
storeVars == <<metaDb, contentDb, nextId, spc, metaBatch, contentBatch, sstats,
               fidx, dupErr, succIds, addRet, flushLog, submitted>>
\* the history of the delay calls
delayVars == <<setDelay, lastGet>>
\* the variables of the worker loop start() and of the master's shutdown flag
loopVars == <<wpc, running, maxPages, idleCount, wstats, shutdownFlag, atPost,
              signals, failures, lastCan, countedBusy, stopReason, robotsResults>>
\* the robots handlers' caches and the keys they write
robotsVars == <<domainHash, robotsCache, localCache, lastBatch, fetchedDelay,
                batches>>
\* the maintenance scripts' variables
toolVars == <<fixRuns>>
\* the process_links calls made on their own
linkVars == <<procLinks>>
\* the fetch tasks of the robots batches
gatherVars == <<gather>>
vars == <<crawlVars, bits, bloomVars, storeVars, delayVars, loopVars, robotsVars,
         toolVars, linkVars, gatherVars>>

Count(f, m) == IF m \in DOMAIN f THEN f[m] ELSE 0
\* f with n added to each count of the members ms, zero counts dropped
Adjust(f, ms, n) ==
    LET g == [x \in (DOMAIN f) \cup ms |-> Count(f, x) + (IF x \in ms THEN n ELSE 0)]
    IN  [x \in {y \in DOMAIN g : g[y] # 0} |-> g[x]]
\* the ZADDs of members ms to sorted set f create those that are absent
NotePush(f, ms) == Adjust(live, ms \ DOMAIN f, 1)
NotePop(m) == Adjust(live, {m}, -1)

Init ==
    /\ now = 0
    /\ frontier = EmptyMap
    /\ lock = [h \in Hosts |-> 0]
    /\ robotsDelay = [h \in Hosts |-> 0]
    /\ domainState = [h \in Hosts |-> 0]
    /\ bits = {}
    /\ pc = [w \in Workers |-> "idle"]
    /\ held = [w \in Workers |-> NoEntry]
    /\ crawlDelay = [w \in Workers |-> 0]
    /\ requeued = [w \in Workers |-> 0]
    /\ handed = {}
    /\ seeds = 0
    /\ lastSet = [h \in Hosts |-> NoLease]
    /\ tooSoon = [h \in Hosts |-> FALSE]
    /\ live = EmptyMap
    /\ bpc = [w \in Workers |-> "idle"]
    /\ burl = [w \in Workers |-> 0]
    /\ bexists = [w \in Workers |-> FALSE]
    /\ added = {}
    /\ lastContains = [w \in Workers |-> NoCall]
    /\ lastAddBatch = NoAddBatch
    /\ metaDb = {}
    /\ contentDb = {}
    /\ nextId = 0
    /\ spc = [w \in Workers |-> "ready"]
    /\ metaBatch = [w \in Workers |-> << >>]
    /\ contentBatch = [w \in Workers |-> << >>]
    /\ sstats = [w \in Workers |-> NoStats]
    /\ fidx = [w \in Workers |-> 0]
    /\ dupErr = [w \in Workers |-> FALSE]
    /\ succIds = [w \in Workers |-> {}]
    /\ addRet = [w \in Workers |-> "none"]
    /\ flushLog = [w \in Workers |-> NoFlush]
    /\ submitted = {}
    /\ setDelay = [h \in Hosts |-> 0]
    /\ lastGet = NoGet
    /\ wpc = [w \in Workers |-> "init"]
    /\ running = [w \in Workers |-> TRUE]
    /\ maxPages = [w \in Workers |-> 0]
    /\ idleCount = [w \in Workers |-> 0]
    /\ wstats = [w \in Workers |-> NoWorkerStats]
    /\ shutdownFlag = 0
    /\ atPost = {}
    /\ signals = 0
    /\ failures = 0
    /\ lastCan = [w \in Workers |-> FALSE]
    /\ countedBusy = [w \in Workers |-> FALSE]
    /\ stopReason = [w \in Workers |-> "none"]
    /\ robotsResults = [w \in Workers |-> EmptyMap]
    /\ domainHash = [h \in Hosts |-> 0]
    /\ robotsCache = [h \in Hosts |-> NoCached]
    /\ localCache = [w \in Workers |-> [h \in Hosts |-> NoLocal]]
    /\ lastBatch = NoBatch
    /\ fetchedDelay = [h \in Hosts |-> 0]
    /\ batches = 0
    /\ fixRuns = 0
    /\ procLinks = [w \in Workers |-> NoLinks]
    /\ gather = [w \in Workers |-> NoGather]

(***************************************************************************)
(* The clock and the host delays.                                          *)
(***************************************************************************)
Tick ==
    /\ now < MaxTime
    /\ now' = now + 1
    /\ UNCHANGED <<frontier, lock, robotsDelay, domainState, bits, pc, held,
                   crawlDelay, requeued, handed, seeds, lastSet, tooSoon, live, bloomVars, storeVars, delayVars, robotsVars, toolVars, linkVars, gatherVars, loopVars>>

\* PolitenessManager.set_crawl_delay(url, delay): HSET and SETEX
SetCrawlDelay(h, d) ==
    /\ Cardinality({x \in Hosts : setDelay[x] # 0}) < MaxDelaySets
    /\ domainState' = [domainState EXCEPT ![h] = d]
    /\ robotsDelay' = [robotsDelay EXCEPT ![h] = d]
    /\ setDelay' = [setDelay EXCEPT ![h] = d]
    /\ UNCHANGED <<now, frontier, lock, bits, pc, held, crawlDelay, requeued,
                   handed, seeds, lastSet, tooSoon, live, bloomVars, storeVars,
                   lastGet, loopVars, robotsVars, toolVars, linkVars, gatherVars>>

\* a stored value that float() rejects (raises ValueError)
InvalidText == -1
\* float(value) succeeds
ParsesAsFloat(v) == v # InvalidText
\* get_crawl_delay with the two lookups in the other order
GetCrawlDelayStateFirst(h) ==
    IF domainState[h] # 0 /\ ParsesAsFloat(domainState[h]) THEN domainState[h]
    ELSE IF robotsDelay[h] # 0 /\ ParsesAsFloat(robotsDelay[h]) THEN robotsDelay[h]
    ELSE DefaultDelay
\* PolitenessManager.get_crawl_delay: the robots delay key if present and a
\* float, else the crawl_delay field of the domain state, else the default
GetCrawlDelay(h) ==
    IF robotsDelay[h] # 0 /\ ParsesAsFloat(robotsDelay[h]) THEN robotsDelay[h]
    ELSE IF domainState[h] # 0 /\ ParsesAsFloat(domainState[h]) THEN domainState[h]
    ELSE DefaultDelay

(***************************************************************************)
(* The delay calls on their own: get_crawl_delay and set_crawl_delay over  *)
(* keys that hold a delay, nothing, or text that is not a float, as any    *)
(* client of the store may have left them; the robots delay key expires    *)
(* 24 hours after set_crawl_delay wrote it.                                *)
(***************************************************************************)
StoredValues == {InvalidText, 0} \cup DelayChoices
\* another client of the store writes the two keys of a host
WriteDelayKeys(h, r, d) ==
    /\ robotsDelay' = [robotsDelay EXCEPT ![h] = r]
    /\ domainState' = [domainState EXCEPT ![h] = d]
    /\ setDelay' = [setDelay EXCEPT ![h] = 0]
    /\ UNCHANGED <<now, frontier, lock, bits, pc, held, crawlDelay, requeued,
                   handed, seeds, lastSet, tooSoon, live, bloomVars, storeVars,
                   lastGet, loopVars, robotsVars, toolVars, linkVars, gatherVars>>
\* setex(delay_key, 86400, delay): the key is gone after 24 hours
ExpireRobotsDelay(h) ==
    /\ robotsDelay[h] # 0
    /\ robotsDelay' = [robotsDelay EXCEPT ![h] = 0]
    /\ UNCHANGED <<now, frontier, lock, domainState, bits, pc, held, crawlDelay,
                   requeued, handed, seeds, lastSet, tooSoon, live, bloomVars,
                   storeVars, delayVars, robotsVars, toolVars, linkVars, gatherVars, loopVars>>
\* a call of get_crawl_delay(url) for a url of host h
CallGetCrawlDelay(h) ==
    /\ lastGet' = [host |-> h, res |-> GetCrawlDelay(h)]
    /\ UNCHANGED <<crawlVars, bits, bloomVars, storeVars, setDelay, loopVars, robotsVars, toolVars, linkVars, gatherVars>>
NextDelay ==
    \/ \E h \in Hosts, r \in StoredValues, d \in StoredValues : WriteDelayKeys(h, r, d)
    \/ \E h \in Hosts, d \in DelayChoices : SetCrawlDelay(h, d)
    \/ \E h \in Hosts : ExpireRobotsDelay(h)
    \/ \E h \in Hosts : CallGetCrawlDelay(h)
SpecDelay == Init /\ [][NextDelay]_vars

(***************************************************************************)
(* MasterV3.seed_urls, one iteration of its loop: a url the filter does    *)
(* not contain is added to the filter and pushed with the seed priority.   *)
(* The master seeds at the start of the run (tick 0).                      *)
(***************************************************************************)
\* the priority argument of seed_urls: the default 100.0, and 3.0 and 0.0 as
\* an operator may pass them
SeedPriorities == {100, 3, 0}
SeedUrl(u, p) ==
    /\ seeds < MaxSeeds
    /\ now = 0
    /\ seeds' = seeds + 1
    /\ IF AllBits(bits, u)
       THEN UNCHANGED <<bits, frontier, live>>
       ELSE LET m == JsonDumps(UrlData(u, 0, 0, now)) IN
            /\ bits' = SetBits(bits, u)
            /\ frontier' = ZAdd(frontier, m, p)
            /\ live' = NotePush(frontier, {m})
    /\ UNCHANGED <<now, lock, robotsDelay, domainState, pc, held, crawlDelay,
                   requeued, handed, lastSet, tooSoon, bloomVars, storeVars, delayVars, robotsVars, toolVars, linkVars, gatherVars, loopVars>>

(***************************************************************************)
(* DecentralizedWorker.pull_url_from_frontier, one Redis call per step.    *)
(***************************************************************************)
\* redis.zpopmax('crawler:frontier', 1), json.loads of the member
PullPop(w) ==
    /\ pc[w] = "idle"
    /\ \E m \in ZMaxMembers(frontier) :
          /\ frontier' = ZPopMax(frontier, m)
          /\ held' = [held EXCEPT ![w] = [json |-> m, priority |-> frontier[m]]]
          /\ live' = NotePop(m)
    /\ pc' = [pc EXCEPT ![w] = "popped"]
    /\ UNCHANGED <<now, lock, robotsDelay, domainState, bits, crawlDelay,
                   requeued, handed, seeds, lastSet, tooSoon, bloomVars, storeVars, delayVars, robotsVars, toolVars, linkVars, gatherVars, loopVars>>

\* crawl_delay = self.politeness.get_crawl_delay(url)
PullDelay(w) ==
    /\ pc[w] = "popped"
    /\ crawlDelay' = [crawlDelay EXCEPT
                        ![w] = GetCrawlDelay(ExtractDomain(JsonLoads(held[w].json).url))]
    /\ pc' = [pc EXCEPT ![w] = "resolved"]
    /\ UNCHANGED <<now, frontier, lock, robotsDelay, domainState, bits, held,
                   requeued, handed, seeds, lastSet, tooSoon, live, bloomVars, storeVars, delayVars, robotsVars, toolVars, linkVars, gatherVars, loopVars>>

\* a SET without NX, which never finds the key in place
LockedNoNx(h) == FALSE
\* the key lock:{host} exists until its expiry
Locked(h) == now < lock[h]
\* can_crawl: delay = crawl_delay or self.default_delay
EffectiveDelay(d) == IF d = 0 THEN DefaultDelay ELSE d
\* can_crawl: the expiry handed to SET, ex=int(delay)
LeaseEx(d) == LeaseSeconds(EffectiveDelay(d))

\* PolitenessManager.can_crawl: SET lock:{host} '1' NX EX int(delay).
\* Redis rejects EX 0 (invalid expire time): the call raises, and the except
\* clause of pull_url_from_frontier returns None with the entry popped.
PullCanCrawl(w) ==
    /\ pc[w] = "resolved"
    /\ LET h == ExtractDomain(JsonLoads(held[w].json).url)
           ex == LeaseEx(crawlDelay[w])
       IN  IF ex = 0
           THEN /\ pc' = [pc EXCEPT ![w] = "idle"]
                /\ held' = [held EXCEPT ![w] = NoEntry]
                /\ UNCHANGED <<lock, lastSet, tooSoon>>
           ELSE IF Locked(h)
           THEN /\ pc' = [pc EXCEPT ![w] = "denied"]
                /\ UNCHANGED <<held, lock, lastSet, tooSoon>>
           ELSE /\ lock' = [lock EXCEPT ![h] = now + ex * TicksPerSec]
                /\ lastSet' = [lastSet EXCEPT ![h] =
                       [set |-> TRUE, t |-> now,
                        delay |-> EffectiveDelay(crawlDelay[w]), ex |-> ex]]
                /\ tooSoon' = [tooSoon EXCEPT ![h] =
                       lastSet[h].set /\ now - lastSet[h].t < lastSet[h].delay]
                /\ pc' = [pc EXCEPT ![w] = "leased"]
                /\ UNCHANGED held
    /\ crawlDelay' = [crawlDelay EXCEPT ![w] = 0]
    /\ UNCHANGED <<now, frontier, robotsDelay, domainState, bits,
                   requeued, handed, seeds, live, bloomVars, storeVars, delayVars, robotsVars, toolVars, linkVars, gatherVars, loopVars>>

\* ReQueueManager.re_queue_url: new_priority = max(current - penalty, 1.0)
NewPriority(p) == Max(p - PriorityPenalty, 1)
\* the dict serialized after url_data['priority'] was assigned
RequeueMemberWithPriority(json) ==
    JsonDumps([url |-> JsonLoads(json).url, parent |-> JsonLoads(json).parent,
               depth |-> JsonLoads(json).depth, added_at |-> JsonLoads(json).added_at,
               priority |-> 0])
\* ReQueueManager.re_queue_url: url_json = json.dumps(url_data)
RequeueMember(json) == JsonDumps(JsonLoads(json))

\* the lease was denied: self.requeue.re_queue_url(url_data, priority)
PullRequeue(w) ==
    /\ pc[w] = "denied"
    /\ requeued[w] < MaxRequeue
    /\ LET m == RequeueMember(held[w].json) IN
          /\ frontier' = ZAdd(frontier, m, NewPriority(held[w].priority))
          /\ live' = NotePush(frontier, {m})
    /\ requeued' = [requeued EXCEPT ![w] = @ + 1]
    /\ pc' = [pc EXCEPT ![w] = "idle"]
    /\ held' = [held EXCEPT ![w] = NoEntry]
    /\ UNCHANGED <<now, lock, robotsDelay, domainState, bits, crawlDelay,
                   handed, seeds, lastSet, tooSoon, bloomVars, storeVars, delayVars, robotsVars, toolVars, linkVars, gatherVars, loopVars>>

(***************************************************************************)
(* DecentralizedWorker.crawl_page for the leased entry: fetch_page, then   *)
(* parse_and_extract_links, process_links and storage.add_page.  A failed  *)
(* fetch (timeout, error, non-HTML) ends the iteration.  process_links     *)
(* keeps the links the filter does not contain, asks the robots handler    *)
(* (allowed is its answer), and for each allowed link adds it to the       *)
(* filter and pushes {url, parent, depth + 1, added_at} with its priority. *)
(***************************************************************************)
SeqToSet(q) == {q[i] : i \in 1..Len(q)}
\* process_links step 2: new_links
NewLinks(u) == {l \in SeqToSet(LinksOf(u)) : ~AllBits(bits, l)}
\* process_links step 4: the members pushed for the allowed links
LinkMembers(allowed, parent, depth) ==
    {JsonDumps(UrlData(l, parent, depth + 1, now)) : l \in allowed}
\* the frontier after the ZADDs of process_links
PushLinks(f, ms) ==
    [x \in (DOMAIN f) \cup ms |->
        IF x \in ms THEN CalculatePriority(x[1], x[3]) ELSE f[x]]
\* SETBITs of the first position of every url only
AddLinksFirst(b, allowed) == b \cup {Hash(l, 0) : l \in allowed}
\* the filter after the add() calls of process_links
AddLinks(b, allowed) == b \cup UNION {GetPositions(l) : l \in allowed}

CrawlPage(w, ok) ==
    /\ pc[w] = "leased"
    /\ LET d == JsonLoads(held[w].json) IN
       IF ~ok
       THEN UNCHANGED <<frontier, bits, handed, live>>
       ELSE \E allowed \in SUBSET NewLinks(d.url) :
              LET ms == LinkMembers(allowed, d.url, d.depth) IN
              /\ bits' = AddLinks(bits, allowed)
              /\ frontier' = PushLinks(frontier, ms)
              /\ live' = NotePush(frontier, ms)
              /\ handed' = handed \cup {d.url}
    /\ pc' = [pc EXCEPT ![w] = "idle"]
    /\ held' = [held EXCEPT ![w] = NoEntry]
    /\ UNCHANGED <<now, lock, robotsDelay, domainState, crawlDelay, requeued,
                   seeds, lastSet, tooSoon, bloomVars, storeVars, delayVars, robotsVars, toolVars, linkVars, gatherVars, loopVars>>

Next ==
    \/ Tick
    \/ \E h \in Hosts, d \in DelayChoices : SetCrawlDelay(h, d)
    \/ \E u \in Urls, p \in SeedPriorities : SeedUrl(u, p)
    \/ \E w \in Workers : PullPop(w)
    \/ \E w \in Workers : PullDelay(w)
    \/ \E w \in Workers : PullCanCrawl(w)
    \/ \E w \in Workers : PullRequeue(w)
    \/ \E w \in Workers, ok \in BOOLEAN : CrawlPage(w, ok)
Spec == Init /\ [][Next]_vars
(***************************************************************************)
(* The filter's clients (BloomFilter in bloom_filter.py).  add() runs two  *)
(* pipelines, the GETBITs and then the SETBITs; contains() and add_batch() *)
(* run one.  Each pipeline is one step, so other clients' pipelines        *)
(* interleave between the two halves of an add().  clear() is the explicit *)
(* reset and is not issued during a crawl.                                 *)
(***************************************************************************)
\* BloomFilter.add, first pipeline: bits = GETBIT..., already_exists = all(bits)
BloomAddRead(w, u) ==
    /\ bpc[w] = "idle"
    /\ bpc' = [bpc EXCEPT ![w] = "setting"]
    /\ burl' = [burl EXCEPT ![w] = u]
    /\ bexists' = [bexists EXCEPT ![w] = AllBits(bits, u)]
    /\ UNCHANGED <<crawlVars, bits, added, lastContains, lastAddBatch, storeVars, delayVars, robotsVars, toolVars, linkVars, gatherVars, loopVars>>

\* BloomFilter.add, second pipeline: SETBIT each position; return not already_exists
BloomAddWrite(w) ==
    /\ bpc[w] = "setting"
    /\ bits' = SetBits(bits, burl[w])
    /\ added' = added \cup {burl[w]}
    /\ bpc' = [bpc EXCEPT ![w] = "idle"]
    /\ burl' = [burl EXCEPT ![w] = 0]
    /\ bexists' = [bexists EXCEPT ![w] = FALSE]
    /\ UNCHANGED <<crawlVars, lastContains, lastAddBatch, storeVars, delayVars, robotsVars, toolVars, linkVars, gatherVars, loopVars>>

\* add_batch's new_count: incremented once for every url of the list
NewCount(us) == Cardinality(us)
\* BloomFilter.add_batch: one pipeline of SETBITs for every url of the batch
BloomAddBatch(w, us) ==
    /\ bpc[w] = "idle"
    /\ bits' = AddLinks(bits, us)
    /\ added' = added \cup us
    /\ lastAddBatch' = [called |-> TRUE, urls |-> us,
                        fresh |-> {u \in us : ~AllBits(bits, u)},
                        ret |-> NewCount(us)]
    /\ UNCHANGED <<crawlVars, bpc, burl, bexists, lastContains, storeVars, delayVars, robotsVars, toolVars, linkVars, gatherVars, loopVars>>

\* BloomFilter.contains: one pipeline of GETBITs, all(bits)
BloomContains(w, u) ==
    /\ bpc[w] = "idle"
    /\ lastContains' = [lastContains EXCEPT
                          ![w] = [url |-> u, res |-> AllBits(bits, u), after |-> u \in added]]
    /\ UNCHANGED <<crawlVars, bits, bpc, burl, bexists, added, lastAddBatch, storeVars, delayVars, robotsVars, toolVars, linkVars, gatherVars, loopVars>>

NextBloom ==
    \/ \E w \in Workers, u \in Urls : BloomAddRead(w, u)
    \/ \E w \in Workers : BloomAddWrite(w)
    \/ \E w \in Workers, us \in SUBSET Urls : BloomAddBatch(w, us)
    \/ \E w \in Workers, u \in Urls : BloomContains(w, u)
SpecBloom == Init /\ [][NextBloom]_vars

(***************************************************************************)
(* The storage writers (OptimizedStorage in optimized_storage.py), one     *)
(* MongoDB operation per step.  A page body is an identifier; its SHA-256  *)
(* and its zlib stream are tagged values of it.  The unordered metadata    *)
(* insert_many is applied one document at a time, so that the inserts of   *)
(* several writers interleave.  Any MongoDB call may fail with an error    *)
(* that is not a duplicate-key error (the connection is lost).             *)
(***************************************************************************)
\* OptimizedStorage._calculate_hash: hashlib.sha256(utf8(content)).hexdigest()
Sha256(h) == <<"sha256", h>>
\* OptimizedStorage._compress_html: zlib.compress(utf8(html), level=6)
CompressHtml(h) == <<"zlib", h>>
\* len(html.encode('utf-8')): body 1 is "<html></html>", body 2 a page of 98 bytes
OriginalSize(h) == IF h = 1 THEN 13 ELSE 98
\* len(compressed_html) of the same bodies
CompressedSize(h) == IF h = 1 THEN 17 ELSE 45

SeqIds(q) == {q[i].id : i \in 1..Len(q)}
MetaIds == {m.id : m \in metaDb}
ContentIds == {c.page_id : c \in contentDb}

\* flush_batch entered with a non-empty metadata_batch
BeginFlush(w, batch) ==
    /\ spc' = [spc EXCEPT ![w] = "meta"]
    /\ fidx' = [fidx EXCEPT ![w] = 1]
    /\ dupErr' = [dupErr EXCEPT ![w] = FALSE]
    /\ succIds' = [succIds EXCEPT ![w] = {}]
    /\ flushLog' = [flushLog EXCEPT ![w] =
          [before |-> sstats[w].pages_stored, batch |-> SeqIds(batch),
           accepted |-> {}, state |-> "running"]]
    /\ submitted' = submitted \cup SeqIds(batch)

\* a threshold that lets the batch grow past batch_size
BatchOverfull(mb) == Len(mb) > BatchSize
\* if len(self.metadata_batch) >= self.batch_size
BatchFull(mb) == Len(mb) >= BatchSize
\* OptimizedStorage.add_page up to its return or to the flush it triggers
AddPageBody(w, u, h) ==
    /\ spc[w] = "ready"
    /\ nextId < MaxIds
    /\ IF \E m \in metaDb : m.content_hash = Sha256(h)
       THEN /\ addRet' = [addRet EXCEPT ![w] = "false"]
            /\ UNCHANGED <<metaDb, contentDb, nextId, spc, metaBatch, contentBatch,
                           sstats, fidx, dupErr, succIds, flushLog, submitted>>
       ELSE LET id == nextId + 1
                mb == Append(metaBatch[w],
                         [id |-> id, url |-> u, content_hash |-> Sha256(h), worker_id |-> w])
                cb == Append(contentBatch[w],
                         [page_id |-> id, compressed_html |-> CompressHtml(h)])
            IN  /\ nextId' = id
                /\ sstats' = [sstats EXCEPT
                      ![w].bytes_original = @ + OriginalSize(h),
                      ![w].bytes_compressed = @ + CompressedSize(h)]
                /\ metaBatch' = [metaBatch EXCEPT ![w] = mb]
                /\ contentBatch' = [contentBatch EXCEPT ![w] = cb]
                /\ addRet' = [addRet EXCEPT ![w] = "true"]
                /\ IF BatchFull(mb)
                   THEN BeginFlush(w, mb)
                   ELSE UNCHANGED <<spc, fidx, dupErr, succIds, flushLog, submitted>>
                /\ UNCHANGED <<metaDb, contentDb>>

\* add_page called by a client of the writer
AddPage(w, u, h) ==
    /\ AddPageBody(w, u, h)
    /\ UNCHANGED <<crawlVars, bits, bloomVars, delayVars, robotsVars, toolVars, linkVars, gatherVars, loopVars>>

\* OptimizedStorage.flush_batch called by the owner (shutdown, close)
FlushBatch(w) ==
    /\ spc[w] = "ready"
    /\ Len(metaBatch[w]) > 0
    /\ BeginFlush(w, metaBatch[w])
    /\ UNCHANGED <<metaDb, contentDb, nextId, metaBatch, contentBatch, sstats, addRet>>
    /\ UNCHANGED <<crawlVars, bits, bloomVars, delayVars, robotsVars, toolVars, linkVars, gatherVars, loopVars>>

\* the metadata collection without its unique index on url
NoUniqueIndex(db, doc) == FALSE
\* _create_indexes: metadata.create_index('url', unique=True); a document
\* whose url is present in the collection is a duplicate key
UrlPresent(db, doc) == \E m \in db : m.url = doc.url

\* metadata.insert_many(batch, ordered=False), one document: the unique index
\* on url rejects a document whose url is present.  After the last document
\* the call returns result.inserted_ids, or raises BulkWriteError.
MetaInsert(w) ==
    /\ spc[w] = "meta"
    /\ LET doc == metaBatch[w][fidx[w]]
           dup == UrlPresent(metaDb, doc)
           last == fidx[w] = Len(metaBatch[w])
           err == dupErr[w] \/ dup
       IN  /\ metaDb' = IF dup THEN metaDb ELSE metaDb \cup {doc}
           /\ flushLog' = [flushLog EXCEPT ![w].accepted =
                              IF dup THEN @ ELSE @ \cup {doc.id}]
           /\ dupErr' = [dupErr EXCEPT ![w] = err]
           /\ fidx' = [fidx EXCEPT ![w] = @ + 1]
           /\ spc' = [spc EXCEPT ![w] =
                        IF ~last THEN "meta" ELSE IF err THEN "find" ELSE "content"]
           /\ succIds' = [succIds EXCEPT ![w] =
                            IF last /\ ~err THEN SeqIds(metaBatch[w]) ELSE @]
    /\ UNCHANGED <<contentDb, nextId, metaBatch, contentBatch, sstats, addRet,
                   submitted>>
    /\ UNCHANGED <<crawlVars, bits, bloomVars, delayVars, robotsVars, toolVars, linkVars, gatherVars, loopVars>>

\* after BulkWriteError: the ids of the batch that find_one({'_id': id}) finds
FoundIds(w) == {id \in SeqIds(metaBatch[w]) : id \in MetaIds}
FindInserted(w) ==
    /\ spc[w] = "find"
    /\ succIds' = [succIds EXCEPT ![w] = FoundIds(w)]
    /\ spc' = [spc EXCEPT ![w] = "content"]
    /\ UNCHANGED <<metaDb, contentDb, nextId, metaBatch, contentBatch, sstats,
                   fidx, dupErr, addRet, flushLog, submitted>>
    /\ UNCHANGED <<crawlVars, bits, bloomVars, delayVars, robotsVars, toolVars, linkVars, gatherVars, loopVars>>

\* flush_batch with an except branch that keeps the batches
EndFlushKeep(w, how) ==
    /\ metaBatch' = [metaBatch EXCEPT ![w] = IF how = "returned" THEN << >> ELSE @]
    /\ contentBatch' = [contentBatch EXCEPT ![w] = IF how = "returned" THEN << >> ELSE @]
    /\ spc' = [spc EXCEPT ![w] = "ready"]
    /\ fidx' = [fidx EXCEPT ![w] = 0]
    /\ dupErr' = [dupErr EXCEPT ![w] = FALSE]
    /\ succIds' = [succIds EXCEPT ![w] = {}]
    /\ flushLog' = [flushLog EXCEPT ![w].state = how]
\* the batches are cleared and flush_batch returns
EndFlush(w, how) ==
    /\ metaBatch' = [metaBatch EXCEPT ![w] = << >>]
    /\ contentBatch' = [contentBatch EXCEPT ![w] = << >>]
    /\ spc' = [spc EXCEPT ![w] = "ready"]
    /\ fidx' = [fidx EXCEPT ![w] = 0]
    /\ dupErr' = [dupErr EXCEPT ![w] = FALSE]
    /\ succIds' = [succIds EXCEPT ![w] = {}]
    /\ flushLog' = [flushLog EXCEPT ![w].state = how]

\* the metadata insert_many or a find_one raises an error that carries no
\* writeErrors: re-raised, caught by the outer except, the batches cleared
FlushError(w) ==
    /\ spc[w] \in {"meta", "find"}
    /\ EndFlush(w, "meta_raised")
    /\ UNCHANGED <<metaDb, contentDb, nextId, sstats, addRet, submitted>>
    /\ UNCHANGED <<crawlVars, bits, bloomVars, delayVars, robotsVars, toolVars, linkVars, gatherVars, loopVars>>

\* content_to_insert: the content documents whose page_id is in successful_page_ids
ContentNoFilter(w) == contentBatch[w]
ContentToInsert(w) ==
    SelectSeq(contentBatch[w], LAMBDA c : c.page_id \in succIds[w])
\* count = len(successful_page_ids)
CountBatch(w) == Len(metaBatch[w])
StoredCount(w) == Cardinality(succIds[w])

\* content.insert_many(content_to_insert), ordered: the first k documents are
\* written; k short of all of them is a failure, raised to the outer except.
\* A document that is present already (its _id was assigned by an earlier
\* insert of the same dict) is a duplicate key, where the insert stops.
\* On success the stats are updated.  With no successful id nothing is written.
ContentInsert(w, k) ==
    /\ spc[w] = "content"
    /\ LET docs == ContentToInsert(w) IN
       IF succIds[w] = {}
       THEN /\ k = 0
            /\ EndFlush(w, "returned")
            /\ UNCHANGED <<contentDb, sstats>>
       ELSE /\ k <= Len(docs)
            /\ \A i \in 1..k : docs[i] \notin contentDb
            /\ contentDb' = contentDb \cup {docs[i] : i \in 1..k}
            /\ IF k = Len(docs)
               THEN /\ sstats' = [sstats EXCEPT
                          ![w].pages_stored = @ + StoredCount(w),
                          ![w].batches_flushed = @ + 1]
                    /\ EndFlush(w, "returned")
               ELSE /\ EndFlush(w, "content_raised")
                    /\ UNCHANGED sstats
    /\ UNCHANGED <<metaDb, nextId, addRet, submitted>>
    /\ UNCHANGED <<crawlVars, bits, bloomVars, delayVars, robotsVars, toolVars, linkVars, gatherVars, loopVars>>

NextStore ==
    \/ \E w \in Workers, u \in PageUrls, h \in Htmls : AddPage(w, u, h)
    \/ \E w \in Workers : FlushBatch(w)
    \/ \E w \in Workers : MetaInsert(w)
    \/ \E w \in Workers : FindInserted(w)
    \/ \E w \in Workers : FlushError(w)
    \/ \E w \in Workers, k \in 0..BatchSize : ContentInsert(w, k)
SpecStore == Init /\ [][NextStore]_vars

(***************************************************************************)
(* The worker loop (DecentralizedWorker.start) and the master's shutdown   *)
(* flag.  A step is one call made by the loop: pull_url_from_frontier,     *)
(* the fetch and link processing of crawl_page, its storage.add_page, and  *)
(* _shutdown; the flushes they enter proceed by the storage writer's       *)
(* steps.  Each call may fail the ways its code handles: a Redis error in  *)
(* the pop or in the lease, a failed fetch, a parse error, an error of the *)
(* robots batch, a MongoDB error.  The environment may deliver a           *)
(* KeyboardInterrupt (SIGINT), SIGTERM, or clear self.running.             *)
(***************************************************************************)
\* start(idle_timeout=...), in seconds: with 5 the first pull that returns
\* None ends the loop, before any time.sleep(5)
IdleTimeout == 5
\* start(max_pages=...) of a capped worker
MaxPages == 1
\* the errors and the signals, stop requests and flag posts of one run
MaxFaults == 1
FaultsLeft == failures + signals < MaxFaults
\* time.sleep(5); idle_count >= idle_timeout / 5
SleepSeconds == 5
\* MasterV3.shutdown_workers: redis.set('crawler:shutdown', '1', ex=300)
ShutdownEx == 300

\* the urls the master seeds before the workers run: seed_urls(urls)
SeedPages == {1}
LoopStates == {"loop", "crawl", "store", "storing"}
\* response.text of the page at u
BodyOf(u) == IF u = 3 THEN 2 ELSE 1
\* the crawl's variables the loop leaves alone
pullHist == <<robotsDelay, domainState, pc, crawlDelay, handed, seeds, lastSet,
              tooSoon, live>>

\* the --max-pages a worker is started with: the first worker is capped, the
\* others run with max_pages=None
CapOf(w) == IF w = 1 THEN MaxPages ELSE 0
\* a call of start(max_pages=CapOf(w), idle_timeout=IdleTimeout), after the
\* master has seeded the frontier
StartWorker(w) ==
    /\ wpc[w] = "init"
    /\ seeds = MaxSeeds
    /\ wpc' = [wpc EXCEPT ![w] = "loop"]
    /\ maxPages' = [maxPages EXCEPT ![w] = CapOf(w)]
    /\ UNCHANGED <<crawlVars, bits, bloomVars, storeVars, delayVars, robotsVars, toolVars, linkVars, gatherVars, running,
                   idleCount, wstats, shutdownFlag, atPost, signals, failures,
                   lastCan, countedBusy, stopReason, robotsResults>>

\* the cap test with > for >=
CapExceeded(w) == maxPages[w] # 0 /\ wstats[w].pages_crawled > maxPages[w]
\* if max_pages and self.stats['pages_crawled'] >= max_pages
CapReached(w) == maxPages[w] # 0 /\ wstats[w].pages_crawled >= maxPages[w]
\* if idle_count >= idle_timeout / 5
IdleReached(c) == c * SleepSeconds >= IdleTimeout

\* while self.running fails, or the page cap is reached: break
LoopExit(w) ==
    /\ wpc[w] = "loop"
    /\ ~running[w] \/ CapReached(w)
    /\ wpc' = [wpc EXCEPT ![w] = "shutdown"]
    /\ stopReason' = [stopReason EXCEPT ![w] = IF ~running[w] THEN "running" ELSE "cap"]
    /\ UNCHANGED <<crawlVars, bits, bloomVars, storeVars, delayVars, robotsVars, toolVars, linkVars, gatherVars, running,
                   maxPages, idleCount, wstats, shutdownFlag, atPost, signals,
                   failures, lastCan, countedBusy, robotsResults>>

\* pull_url_from_frontier returns url_data whatever can_crawl answered
ReturnsUrlAlways(can) == can \in {"true", "false"}
\* pull_url_from_frontier returns url_data only after can_crawl returned true
ReturnsUrl(can) == can = "true"

\* start() after the pull: None counts in idle_count and may end the loop,
\* url_data resets idle_count and is crawled.  can is what can_crawl answered
\* ("none": not called, "error": Redis raised), busy whether an entry was popped.
AfterPull(w, can, busy) ==
    /\ lastCan' = [lastCan EXCEPT ![w] = (can = "true")]
    /\ robotsResults' = [robotsResults EXCEPT ![w] = EmptyMap]
    /\ IF ReturnsUrl(can)
       THEN /\ idleCount' = [idleCount EXCEPT ![w] = 0]
            /\ countedBusy' = [countedBusy EXCEPT ![w] = FALSE]
            /\ wpc' = [wpc EXCEPT ![w] = "crawl"]
            /\ UNCHANGED stopReason
       ELSE /\ idleCount' = [idleCount EXCEPT ![w] = @ + 1]
            /\ countedBusy' = [countedBusy EXCEPT ![w] = @ \/ busy]
            /\ IF IdleReached(idleCount[w] + 1)
               THEN /\ wpc' = [wpc EXCEPT ![w] = "shutdown"]
                    /\ stopReason' = [stopReason EXCEPT ![w] = "idle"]
               ELSE /\ wpc' = [wpc EXCEPT ![w] = "loop"]
                    /\ UNCHANGED stopReason

\* one iteration of the loop up to the crawl: the running and cap tests,
\* pull_url_from_frontier (zpopmax, get_crawl_delay, can_crawl, re_queue_url)
\* and the idle accounting.  err is the Redis call that raises, if any.
Pull(w, err) ==
    /\ wpc[w] = "loop" /\ running[w] /\ ~CapReached(w)
    /\ err # "none" => FaultsLeft
    /\ \/ /\ err = "pop"
          /\ AfterPull(w, "error", FALSE)
          /\ failures' = failures + 1
          /\ UNCHANGED <<frontier, lock, held, requeued>>
       \/ /\ err = "none" /\ DOMAIN frontier = {}
          /\ AfterPull(w, "none", FALSE)
          /\ UNCHANGED <<frontier, lock, held, requeued, failures>>
       \/ /\ err # "pop"
          /\ \E m \in ZMaxMembers(frontier) :
               LET p == frontier[m]
                   h == ExtractDomain(JsonLoads(m).url)
                   ex == LeaseEx(GetCrawlDelay(h))
                   can == IF err = "lease" \/ ex = 0 THEN "error"
                          ELSE IF Locked(h) THEN "false" ELSE "true"
               IN  /\ frontier' = IF can = "false"
                                  THEN ZAdd(ZPopMax(frontier, m), RequeueMember(m),
                                            NewPriority(p))
                                  ELSE ZPopMax(frontier, m)
                   /\ lock' = IF can = "true"
                              THEN [lock EXCEPT ![h] = now + ex * TicksPerSec]
                              ELSE lock
                   /\ requeued' = [requeued EXCEPT
                                     ![w] = IF can = "false" THEN @ + 1 ELSE @]
                   /\ failures' = IF can = "error" THEN failures + 1 ELSE failures
                   /\ held' = [held EXCEPT
                                 ![w] = IF ReturnsUrl(can)
                                        THEN [json |-> m, priority |-> p]
                                        ELSE NoEntry]
                   /\ AfterPull(w, can, TRUE)
    /\ UNCHANGED <<now, pullHist, bits, bloomVars, storeVars, delayVars, robotsVars, toolVars, linkVars, gatherVars, running,
                   maxPages, wstats, shutdownFlag, atPost, signals>>

\* process_links step 4: the links whose robots decision is true
AllLinks(rr) == DOMAIN rr
AllowedLinks(rr) == {l \in DOMAIN rr : rr[l]}
BlockedLinks(rr) == {l \in DOMAIN rr : ~rr[l]}

\* the ways fetch_page returns None: requests.Timeout, any other exception
\* (connection error, HTTP error raised by raise_for_status once the
\* session's retries are used up), a Content-Type without text/html
FetchFailures == {"fetch_timeout", "fetch_error", "non_html"}
\* crawl_page goes on to add_page after fetch_page returned None
EndIterationStore(w) ==
    /\ wpc' = [wpc EXCEPT ![w] = "store"]
    /\ UNCHANGED held
\* the loop back to its top after crawl_page returned
EndIteration(w) ==
    /\ wpc' = [wpc EXCEPT ![w] = "loop"]
    /\ held' = [held EXCEPT ![w] = NoEntry]

\* crawl_page up to add_page: fetch_page, parse_and_extract_links and
\* process_links.  A failed fetch returns False; a parse error leaves no links;
\* an error of the robots batch is caught by crawl_page, which returns False.
CrawlFetch(w, out) ==
    /\ wpc[w] = "crawl"
    /\ out # "ok" => FaultsLeft
    /\ failures' = IF out # "ok" THEN failures + 1 ELSE failures
    /\ LET d == JsonLoads(held[w].json) IN
       \/ /\ out \in FetchFailures
          /\ wstats' = [wstats EXCEPT
                          ![w].timeouts = IF out = "fetch_timeout" THEN @ + 1 ELSE @,
                          ![w].errors = IF out = "fetch_error" THEN @ + 1 ELSE @]
          /\ EndIteration(w)
          /\ UNCHANGED <<frontier, bits, robotsResults>>
       \/ /\ out = "parse_failed"
          /\ wpc' = [wpc EXCEPT ![w] = "store"]
          /\ UNCHANGED <<frontier, bits, robotsResults, wstats, held>>
       \/ /\ out = "robots_failed" /\ NewLinks(d.url) # {}
          /\ wstats' = [wstats EXCEPT ![w].errors = @ + 1]
          /\ EndIteration(w)
          /\ UNCHANGED <<frontier, bits, robotsResults>>
       \/ /\ out = "ok"
          /\ \E allowed \in SUBSET NewLinks(d.url) :
               LET rr == [l \in NewLinks(d.url) |-> l \in allowed] IN
               /\ robotsResults' = [robotsResults EXCEPT ![w] = rr]
               /\ bits' = AddLinks(bits, AllowedLinks(rr))
               /\ frontier' = PushLinks(frontier,
                                 LinkMembers(AllowedLinks(rr), d.url, d.depth))
               /\ wstats' = [wstats EXCEPT ![w].links_robots_blocked =
                                @ + Cardinality(BlockedLinks(rr))]
          /\ wpc' = [wpc EXCEPT ![w] = "store"]
          /\ UNCHANGED held
    /\ UNCHANGED <<now, lock, requeued, pullHist, bloomVars, storeVars, delayVars, robotsVars, toolVars, linkVars, gatherVars,
                   running, maxPages, idleCount, shutdownFlag, atPost, signals,
                   lastCan, countedBusy, stopReason>>

\* crawl_page step 4: storage.add_page(url, html, ...), then pages_crawled.
\* A MongoDB error in add_page's find_one is caught by crawl_page.  When
\* add_page enters flush_batch the worker waits for the flush to return.
CrawlStore(w, err) ==
    /\ wpc[w] = "store"
    /\ held' = [held EXCEPT ![w] = NoEntry]
    /\ robotsResults' = [robotsResults EXCEPT ![w] = EmptyMap]
    /\ IF err
       THEN /\ FaultsLeft
            /\ failures' = failures + 1
            /\ wstats' = [wstats EXCEPT ![w].errors = @ + 1]
            /\ wpc' = [wpc EXCEPT ![w] = "loop"]
            /\ UNCHANGED storeVars
       ELSE /\ AddPageBody(w, JsonLoads(held[w].json).url,
                           BodyOf(JsonLoads(held[w].json).url))
            /\ IF spc'[w] = "meta"
               THEN /\ wpc' = [wpc EXCEPT ![w] = "storing"]
                    /\ UNCHANGED wstats
               ELSE /\ wpc' = [wpc EXCEPT ![w] = "loop"]
                    /\ wstats' = [wstats EXCEPT ![w].pages_crawled = @ + 1]
            /\ UNCHANGED failures
    /\ UNCHANGED <<now, frontier, lock, requeued, pullHist, bits, bloomVars,
                   delayVars, robotsVars, toolVars, linkVars, gatherVars, running, maxPages, idleCount, shutdownFlag, atPost,
                   signals, lastCan, countedBusy, stopReason>>

\* the flush add_page entered has returned: self.stats['pages_crawled'] += 1
CrawlStored(w) ==
    /\ wpc[w] = "storing" /\ spc[w] = "ready"
    /\ wpc' = [wpc EXCEPT ![w] = "loop"]
    /\ wstats' = [wstats EXCEPT ![w].pages_crawled = @ + 1]
    /\ UNCHANGED <<crawlVars, bits, bloomVars, storeVars, delayVars, robotsVars, toolVars, linkVars, gatherVars, running,
                   maxPages, idleCount, shutdownFlag, atPost, signals, failures,
                   lastCan, countedBusy, stopReason, robotsResults>>

\* _shutdown without its flush
NothingToFlush(w) == TRUE
\* flush_batch: if not self.metadata_batch: return
BatchEmpty(w) == Len(metaBatch[w]) = 0

\* finally: self._shutdown(): self.storage.flush_batch()
Shutdown(w) ==
    /\ wpc[w] = "shutdown" /\ spc[w] = "ready"
    /\ IF BatchEmpty(w)
       THEN /\ wpc' = [wpc EXCEPT ![w] = "stopped"]
            /\ UNCHANGED storeVars
       ELSE /\ wpc' = [wpc EXCEPT ![w] = "closing"]
            /\ BeginFlush(w, metaBatch[w])
            /\ UNCHANGED <<metaDb, contentDb, nextId, metaBatch, contentBatch,
                           sstats, addRet>>
    /\ UNCHANGED <<crawlVars, bits, bloomVars, delayVars, robotsVars, toolVars, linkVars, gatherVars, running, maxPages,
                   idleCount, wstats, shutdownFlag, atPost, signals, failures,
                   lastCan, countedBusy, stopReason, robotsResults>>

\* the flush of _shutdown has returned; close() and the statistics follow
ShutdownDone(w) ==
    /\ wpc[w] = "closing" /\ spc[w] = "ready"
    /\ wpc' = [wpc EXCEPT ![w] = "stopped"]
    /\ UNCHANGED <<crawlVars, bits, bloomVars, storeVars, delayVars, robotsVars, toolVars, linkVars, gatherVars, running,
                   maxPages, idleCount, wstats, shutdownFlag, atPost, signals,
                   failures, lastCan, countedBusy, stopReason, robotsResults>>

\* a flush_batch under way is abandoned where it stands, its batches kept
AbortFlush(w) ==
    IF spc[w] = "ready"
    THEN UNCHANGED <<spc, fidx, dupErr, succIds, flushLog>>
    ELSE /\ spc' = [spc EXCEPT ![w] = "ready"]
         /\ fidx' = [fidx EXCEPT ![w] = 0]
         /\ dupErr' = [dupErr EXCEPT ![w] = FALSE]
         /\ succIds' = [succIds EXCEPT ![w] = {}]
         /\ flushLog' = [flushLog EXCEPT ![w].state = "interrupted"]

\* KeyboardInterrupt raised in the loop: no except Exception catches it, the
\* except clause of start() does, and finally runs _shutdown
Interrupt(w) ==
    /\ wpc[w] \in LoopStates
    /\ FaultsLeft
    /\ signals' = signals + 1
    /\ wpc' = [wpc EXCEPT ![w] = "shutdown"]
    /\ stopReason' = [stopReason EXCEPT ![w] = "interrupt"]
    /\ held' = [held EXCEPT ![w] = NoEntry]
    /\ AbortFlush(w)
    /\ UNCHANGED <<now, frontier, lock, requeued, pullHist, bits, bloomVars,
                   metaDb, contentDb, nextId, metaBatch, contentBatch, sstats,
                   addRet, submitted, delayVars, robotsVars, toolVars, linkVars, gatherVars, running, maxPages, idleCount,
                   wstats, shutdownFlag, atPost, failures, lastCan, countedBusy,
                   robotsResults>>

\* self.running is cleared by the owner of the worker object
StopRequested(w) ==
    /\ wpc[w] \in LoopStates /\ running[w]
    /\ FaultsLeft
    /\ signals' = signals + 1
    /\ running' = [running EXCEPT ![w] = FALSE]
    /\ UNCHANGED <<crawlVars, bits, bloomVars, storeVars, delayVars, robotsVars, toolVars, linkVars, gatherVars, wpc, maxPages,
                   idleCount, wstats, shutdownFlag, atPost, failures, lastCan,
                   countedBusy, stopReason, robotsResults>>

\* SIGTERM: the worker installs no handler, so the default action ends the
\* process at once; neither except nor finally runs, the buffers are lost
Sigterm(w) ==
    /\ wpc[w] \in LoopStates \cup {"shutdown", "closing"}
    /\ FaultsLeft
    /\ signals' = signals + 1
    /\ wpc' = [wpc EXCEPT ![w] = "killed"]
    /\ stopReason' = [stopReason EXCEPT ![w] = "sigterm"]
    /\ held' = [held EXCEPT ![w] = NoEntry]
    /\ AbortFlush(w)
    /\ UNCHANGED <<now, frontier, lock, requeued, pullHist, bits, bloomVars,
                   metaDb, contentDb, nextId, metaBatch, contentBatch, sstats,
                   addRet, submitted, delayVars, robotsVars, toolVars, linkVars, gatherVars, running, maxPages, idleCount,
                   wstats, shutdownFlag, atPost, failures, lastCan, countedBusy,
                   robotsResults>>

\* the key crawler:shutdown exists until its expiry
FlagPresent == now < shutdownFlag
\* MasterV3.shutdown_workers: SET crawler:shutdown '1' EX 300, posted while
\* the workers run
PostShutdown ==
    /\ FaultsLeft
    /\ \A w \in Workers : wpc[w] \in LoopStates
    /\ signals' = signals + 1
    /\ shutdownFlag' = now + ShutdownEx * TicksPerSec
    /\ atPost' = {w \in Workers : wpc[w] \in LoopStates}
    /\ UNCHANGED <<crawlVars, bits, bloomVars, storeVars, delayVars, robotsVars, toolVars, linkVars, gatherVars, wpc, running,
                   maxPages, idleCount, wstats, failures, lastCan, countedBusy,
                   stopReason, robotsResults>>
\* MasterV3.clear_shutdown_signal: DEL crawler:shutdown
ClearShutdown ==
    /\ shutdownFlag # 0
    /\ shutdownFlag' = 0
    /\ UNCHANGED <<crawlVars, bits, bloomVars, storeVars, delayVars, robotsVars, toolVars, linkVars, gatherVars, wpc, running,
                   maxPages, idleCount, wstats, atPost, signals, failures, lastCan,
                   countedBusy, stopReason, robotsResults>>

NextWorker ==
    \/ Tick
    \/ \E u \in SeedPages, p \in {100} : SeedUrl(u, p)
    \/ \E w \in Workers : StartWorker(w)
    \/ \E w \in Workers : LoopExit(w)
    \/ \E w \in Workers, err \in {"none", "pop", "lease"} : Pull(w, err)
    \/ \E w \in Workers,
          out \in {"ok", "parse_failed", "robots_failed"} \cup FetchFailures :
             CrawlFetch(w, out)
    \/ \E w \in Workers, err \in BOOLEAN : CrawlStore(w, err)
    \/ \E w \in Workers : CrawlStored(w)
    \/ \E w \in Workers : MetaInsert(w)
    \/ \E w \in Workers : FindInserted(w)
    \/ \E w \in Workers : FlushError(w)
    \/ \E w \in Workers, k \in 0..BatchSize : ContentInsert(w, k)
    \/ \E w \in Workers : Shutdown(w)
    \/ \E w \in Workers : ShutdownDone(w)
    \/ \E w \in Workers : Interrupt(w)
    \/ \E w \in Workers : StopRequested(w)
    \/ \E w \in Workers : Sigterm(w)
    \/ PostShutdown
    \/ ClearShutdown
SpecWorker == Init /\ [][NextWorker]_vars

(***************************************************************************)
(* The reconciliation script (utils/fix_collection_sync.py), run while no  *)
(* writer is inside a flush.  The collections it meets are those the       *)
(* writers leave, failed content inserts included, and those left by a     *)
(* client that deleted a metadata document.                                *)
(***************************************************************************)
\* the runs of fix_collection_sync
MaxFixRuns == 2
\* a client of the database deletes the metadata document of a stored page
DeleteMetadata(id) ==
    /\ fixRuns = 0
    /\ \A w \in Workers : spc[w] = "ready"
    /\ ContentIds \subseteq MetaIds
    /\ id \in MetaIds \cap ContentIds
    /\ metaDb' = {m \in metaDb : m.id # id}
    /\ UNCHANGED <<contentDb, nextId, spc, metaBatch, contentBatch, sstats, fidx,
                   dupErr, succIds, addRet, flushLog, submitted>>
    /\ UNCHANGED <<crawlVars, bits, bloomVars, delayVars, loopVars, robotsVars, toolVars, linkVars, gatherVars>>

\* orphaned_content = content_page_ids - metadata_ids
OrphanedContent == ContentIds \ MetaIds
\* the metadata ids taken for orphans whether they have content or not
EveryMetadata == MetaIds
\* orphaned_metadata = metadata_ids - content_page_ids
OrphanedMetadata == MetaIds \ ContentIds
\* collection.delete_many({field: {'$in': ids}})
DeleteMany(ids, of) == {id \in of : id \notin ids}

\* fix_collection_sync(): both id sets are read, then the two delete_many
FixCollectionSync ==
    /\ fixRuns < MaxFixRuns
    /\ \A w \in Workers : spc[w] = "ready"
    /\ fixRuns' = fixRuns + 1
    /\ contentDb' = {c \in contentDb :
                        c.page_id \in DeleteMany(OrphanedContent, ContentIds)}
    /\ metaDb' = {m \in metaDb : m.id \in DeleteMany(OrphanedMetadata, MetaIds)}
    /\ UNCHANGED <<nextId, spc, metaBatch, contentBatch, sstats, fidx, dupErr,
                   succIds, addRet, flushLog, submitted>>
    /\ UNCHANGED <<crawlVars, bits, bloomVars, delayVars, loopVars, robotsVars,
                   linkVars, gatherVars>>

NextFix ==
    \/ \E w \in Workers, u \in PageUrls, h \in Htmls : AddPage(w, u, h)
    \/ \E w \in Workers : FlushBatch(w)
    \/ \E w \in Workers : MetaInsert(w)
    \/ \E w \in Workers : FindInserted(w)
    \/ \E w \in Workers : FlushError(w)
    \/ \E w \in Workers, k \in 0..BatchSize : ContentInsert(w, k)
    \/ \E id \in 1..MaxIds : DeleteMetadata(id)
    \/ FixCollectionSync
SpecFix == Init /\ [][NextFix]_vars

(***************************************************************************)
(* The robots handler (AsyncRobotsHandler), one per worker.  A step is one *)
(* can_fetch_batch: the cache lookups, the parallel fetches of the hosts   *)
(* found in neither cache, the cache writes and the decisions.  A parser   *)
(* is identified with the robots.txt it was parsed from; 0 stands for None.*)
(***************************************************************************)
\* AsyncRobotsHandler(cache_ttl=...), in seconds
CacheTtl == 1
\* the can_fetch_batch calls of one run, and the urls of one call
MaxBatches == 2
MaxBatchUrls == 2
\* the robots.txt files the hosts may serve; the last one is the empty file
\* (HTTP 200 with a body of no bytes)
NumRobots == 3
RobotsFiles == 1..NumRobots
EmptyFile == NumRobots
\* the urls a batch is called with; 0 is a url with no netloc whose path has
\* an empty first segment ('/x')
RobotsUrls == 0..NumUrls
\* AsyncRobotsHandler._extract_domain; "" is falsy like None
RobotsDomain(u) == IF u = 0 THEN "" ELSE ExtractDomain(u)
\* the urls the Disallow rules of file c forbid to the handler's user agent
DisallowOf(c) == IF c = 1 THEN {2} ELSE IF c = EmptyFile THEN {} ELSE {1, 3}
\* the text after 'crawl-delay:' on the first such line of file c: '2.0' in
\* file 1, 'abc' in file 2; 0 stands for a file without such a line
DelayLineOf(c) ==
    IF c = 1 THEN 2 * TicksPerSec ELSE IF c = EmptyFile THEN 0 ELSE InvalidText
\* _extract_crawl_delay: float() of that text, None (0) without it or on error
ExtractCrawlDelay(c) ==
    IF DelayLineOf(c) # 0 /\ ParsesAsFloat(DelayLineOf(c)) THEN DelayLineOf(c)
    ELSE 0
\* RobotFileParser.can_fetch(user_agent, url) of the parser of file c
CanFetch(c, u) == u \notin DisallowOf(c)

\* what the GET of one protocol may do: a status, a timeout, a client error,
\* any other exception; "raised": the task itself ends in an exception
Statuses == {"200", "404", "403", "500", "timeout", "client_error", "error"}
FailedGet == {"500", "timeout", "client_error", "error"}
\* the fetch of one host: the outcome over https, the outcome over http if
\* it is tried, and the file a 200 delivers.  Every outcome of either GET
\* occurs; of the pairs that take the same path one is kept.
Attempts ==
    {a \in [https : Statuses \cup {"raised"}, http : {"200", "404", "timeout"},
            file : RobotsFiles] :
        /\ a.https \notin FailedGet => a.http = "200"
        /\ a.https # "200" => a.file = 1
        /\ a.https = "500" => a.http = "404"
        /\ a.https = "timeout" => a.http = "200"
        /\ a.https \in {"client_error", "error"} => a.http = "timeout"}
\* _fetch_robots_for_domain: https first, then http; the parser on 200, None
\* on 404/403 or when both protocols failed
FetchRobotsForDomain(a) ==
    IF a.https = "200" THEN a.file
    ELSE IF a.https \in {"404", "403"} THEN 0
    ELSE IF a.http = "200" THEN a.file
    ELSE 0
\* why the fetch of a host left a parser or none
CauseOf(a) ==
    IF a.https = "raised" THEN "raised"
    ELSE IF a.https = "200" THEN "fetched"
    ELSE IF a.https \in {"404", "403"} THEN "absent"
    ELSE IF a.http = "200" THEN "fetched"
    ELSE IF a.http = "404" THEN "absent"
    ELSE "failed"

\* time.time() - cached_time < self.cache_ttl
LocalFresh(w, d) ==
    /\ localCache[w][d].has
    /\ now - localCache[w][d].fetched_at < CacheTtl * TicksPerSec
\* hgetall(robots_cache:{domain}) has 'content': written and not yet expired
RedisCached(d) == robotsCache[d].content # 0 /\ now < robotsCache[d].exp
\* domain_to_urls.keys()
DomainsOf(urls) == {RobotsDomain(u) : u \in urls} \ {""}
\* domains_to_fetch
DomainsToFetch(w, urls) ==
    {d \in DomainsOf(urls) : ~LocalFresh(w, d) /\ ~RedisCached(d)}
\* _fetch_robots_batch: parsers[domain]
ParserOf(w, d, att) ==
    IF LocalFresh(w, d) THEN localCache[w][d].parser
    ELSE IF RedisCached(d) THEN robotsCache[d].content
    ELSE IF att[d].https = "raised" THEN 0
    ELSE FetchRobotsForDomain(att[d])
\* the decision with a missing parser read as a refusal
DecisionDenyUnknown(parser, u) == parser # 0 /\ CanFetch(parser, u)
\* can_fetch_batch: True without a parser, else parser.can_fetch
Decision(parser, u) == IF parser = 0 THEN TRUE ELSE CanFetch(parser, u)

\* the hosts whose fetch delivered a robots.txt in this batch
Retrieved(w, urls, att) ==
    {d \in DomainsToFetch(w, urls) :
        att[d].https # "raised" /\ FetchRobotsForDomain(att[d]) # 0}
\* if content: an empty body is not written to robots_cache:{domain}
Persisted(w, urls, att) ==
    {d \in Retrieved(w, urls, att) : FetchRobotsForDomain(att[d]) # EmptyFile}
\* can_fetch_batch(urls) of worker w's handler, the fetches going as att says
RunBatch(w, urls, att) ==
    /\ batches < MaxBatches
    /\ batches' = batches + 1
    /\ LET ds == DomainsOf(urls)
           fs == DomainsToFetch(w, urls)
           got == Retrieved(w, urls, att)
           parsers == [d \in ds |-> ParserOf(w, d, att)]
       IN  /\ domainHash' =
                [d \in Hosts |->
                   IF d \in got /\ ExtractCrawlDelay(parsers[d]) # 0
                   THEN ExtractCrawlDelay(parsers[d])
                   ELSE domainHash[d]]
           /\ fetchedDelay' =
                [d \in Hosts |->
                   IF d \in got THEN ExtractCrawlDelay(parsers[d])
                   ELSE fetchedDelay[d]]
           /\ robotsCache' =
                [d \in Hosts |->
                   IF d \in Persisted(w, urls, att)
                   THEN [content |-> parsers[d],
                         exp |-> now + CacheTtl * TicksPerSec]
                   ELSE robotsCache[d]]
           /\ localCache' =
                [localCache EXCEPT ![w] =
                   [d \in Hosts |->
                      IF d \in fs /\ att[d].https = "raised" THEN @[d]
                      ELSE IF d \in ds /\ ~LocalFresh(w, d)
                      THEN [has |-> TRUE, parser |-> parsers[d],
                            fetched_at |-> now]
                      ELSE @[d]]]
           /\ lastBatch' =
                [w |-> w, urls |-> urls,
                 results |-> [u \in urls |->
                                IF RobotsDomain(u) = "" THEN TRUE
                                ELSE Decision(parsers[RobotsDomain(u)], u)],
                 parsers |-> parsers,
                 cause |-> [d \in fs |-> CauseOf(att[d])]]
    /\ UNCHANGED <<crawlVars, bits, bloomVars, storeVars, delayVars, loopVars,
                   toolVars, linkVars>>

\* the url lists can_fetch_batch is called with: the urls with a host alone
\* and in pairs, the url without a host alone and next to one other url
BatchChoices ==
    {x \in SUBSET RobotsUrls :
        Cardinality(x) \in 1..MaxBatchUrls /\ (0 \in x => x \subseteq {0, NumUrls})}
\* a call of can_fetch_batch(urls), each fetch it starts going one of the ways
\* a fetch can go
CanFetchBatch(w, urls) ==
    /\ \E att \in [DomainsToFetch(w, urls) -> Attempts] : RunBatch(w, urls, att)
    /\ UNCHANGED gatherVars

\* the regulator resolves the delay of a host whose robots.txt was retrieved
\* with a Crawl-delay: pull_url_from_frontier's get_crawl_delay(url)
GetFetchedDelay(h) == fetchedDelay[h] # 0 /\ CallGetCrawlDelay(h)

NextRobots ==
    \/ Tick
    \/ \E w \in Workers, urls \in BatchChoices : CanFetchBatch(w, urls)
    \/ \E h \in Hosts : GetFetchedDelay(h)
SpecRobots == Init /\ [][NextRobots]_vars

\* ---- the fetch tasks of one batch, step by step (robots_handler_async.py)
\* The same batch as RunBatch, with the tasks of asyncio.gather made visible:
\* the call creates them, each one ends on its own, and the results are read
\* once none is left running.

\* the tasks in flight after a gather that starts them one after the other
GatherStartsOne(fs) == {CHOOSE d \in fs : TRUE}
\* asyncio.gather(*tasks): every coroutine of the list is scheduled by the call
GatherStarts(fs) == fs
\* what a task that has ended left behind
Outcome(t) == [https |-> t.https, http |-> t.http, file |-> t.file]
\* tasks = [...]; await asyncio.gather(*tasks, return_exceptions=True): the
\* call, up to the point where the handler waits
GatherBegin(w, urls) ==
    /\ batches < MaxBatches
    /\ \A v \in Workers : gather[v].state = "idle"
    /\ DomainsToFetch(w, urls) # {}
    /\ gather' =
         [gather EXCEPT ![w] =
            [state |-> "waiting", urls |-> urls,
             tasks |-> [d \in DomainsToFetch(w, urls) |->
                          IF d \in GatherStarts(DomainsToFetch(w, urls))
                          THEN [NoTask EXCEPT !.st = "running"]
                          ELSE NoTask]]]
    /\ UNCHANGED <<crawlVars, bits, bloomVars, storeVars, delayVars, loopVars,
                   robotsVars, toolVars, linkVars>>
\* one _fetch_robots_for_domain task ends: it returns (parser, content) or
\* raises, and return_exceptions=True keeps the exception as its result
TaskEnds(w, d, a) ==
    /\ gather[w].state = "waiting"
    /\ d \in DOMAIN gather[w].tasks
    /\ gather[w].tasks[d].st = "running"
    /\ gather' =
         [gather EXCEPT ![w].tasks[d] =
            [st |-> IF a.https = "raised" THEN "raised" ELSE "returned",
             https |-> a.https, http |-> a.http, file |-> a.file]]
    /\ UNCHANGED <<crawlVars, bits, bloomVars, storeVars, delayVars, loopVars,
                   robotsVars, toolVars, linkVars>>
\* gather resolves once no task is running; the loop over zip(domains_to_fetch,
\* results) and the rest of can_fetch_batch follow
GatherEnd(w) ==
    /\ gather[w].state = "waiting"
    /\ \A d \in DOMAIN gather[w].tasks :
          gather[w].tasks[d].st \in {"returned", "raised"}
    /\ DOMAIN gather[w].tasks = DomainsToFetch(w, gather[w].urls)
    /\ RunBatch(w, gather[w].urls,
                [d \in DOMAIN gather[w].tasks |-> Outcome(gather[w].tasks[d])])
    /\ gather' = [gather EXCEPT ![w].state = "idle"]

NextGather ==
    \/ \E w \in Workers, urls \in BatchChoices : GatherBegin(w, urls)
    \/ \E w \in Workers, d \in Hosts, a \in Attempts : TaskEnds(w, d, a)
    \/ \E w \in Workers : GatherEnd(w)
SpecGather == Init /\ [][NextGather]_vars

(***************************************************************************)
(* DecentralizedWorker.process_links on its own, next to the master's      *)
(* seeding.  The call is given the list parse_and_extract_links returned,  *)
(* in which a url may occur several times.  Steps 1 to 3 (validation, the  *)
(* contains() calls, the robots batch) are one step; every iteration of    *)
(* step 4 is two steps, the filter add and the ZADD, so that the clock and *)
(* the other worker's calls run between them.  added_at is the clock       *)
(* reading of the iteration.                                               *)
(***************************************************************************)
\* the links of one call, and the calls of one worker
MaxLinks == 2
MaxLinkCalls == 1
\* the lists parse_and_extract_links may return for the seed page: its anchors
\* in any order and number
LinkLists == UNION {[1..n -> Urls \ SeedPages] : n \in 0..MaxLinks}
\* step 2: new_links, the links the filter does not contain, in list order
NewLinksOf(b, links) == SelectSeq(links, LAMBDA l : ~AllBits(b, l))
\* step 4 without its filter add
LinkAddSkipped(b, l) == b
\* step 4: self.bloom_filter.add(link)
LinkAdd(b, l) == SetBits(b, l)
\* the loop of step 4 moves to its next link, or the call returns
NextLink(r) ==
    [r EXCEPT !.i = @ + 1,
              !.pos = IF r.i < Len(r.new_links) THEN "adding" ELSE "idle"]

\* process_links(links, parent, depth) up to step 4, for a page that came out
\* of the frontier; rr is robots_results
ProcessLinksCheck(w, links, parent, depth, rr) ==
    /\ procLinks[w].pos = "idle"
    /\ procLinks[w].calls < MaxLinkCalls
    /\ AllBits(bits, parent)
    /\ DOMAIN rr = SeqToSet(NewLinksOf(bits, links))
    /\ procLinks' = [procLinks EXCEPT ![w] =
          [pos |-> IF NewLinksOf(bits, links) = << >> THEN "idle" ELSE "adding",
           new_links |-> NewLinksOf(bits, links), i |-> 1, rr |-> rr,
           parent |-> parent, depth |-> depth, before |-> bits, pushed |-> {},
           calls |-> procLinks[w].calls + 1]]
    /\ UNCHANGED <<crawlVars, bits, bloomVars, storeVars, delayVars, loopVars,
                   robotsVars, toolVars, gatherVars>>

\* step 4, one link: a blocked link is skipped, an allowed one added to the filter
ProcessLinksAdd(w) ==
    /\ procLinks[w].pos = "adding"
    /\ LET r == procLinks[w]
           link == r.new_links[r.i]
       IN  IF r.rr[link]
           THEN /\ bits' = LinkAdd(bits, link)
                /\ procLinks' = [procLinks EXCEPT ![w].pos = "pushing"]
           ELSE /\ procLinks' = [procLinks EXCEPT ![w] = NextLink(r)]
                /\ UNCHANGED bits
    /\ UNCHANGED <<crawlVars, bloomVars, storeVars, delayVars, loopVars,
                   robotsVars, toolVars, gatherVars>>

\* step 4, the same link: redis.zadd('crawler:frontier', {json.dumps(url_data): priority})
ProcessLinksPush(w) ==
    /\ procLinks[w].pos = "pushing"
    /\ LET r == procLinks[w]
           link == r.new_links[r.i]
           m == JsonDumps(UrlData(link, r.parent, r.depth + 1, now))
       IN  /\ frontier' = ZAdd(frontier, m, CalculatePriority(link, r.depth + 1))
           /\ live' = NotePush(frontier, {m})
           /\ procLinks' = [procLinks EXCEPT
                              ![w] = [NextLink(r) EXCEPT !.pushed = @ \cup {m}]]
    /\ UNCHANGED <<now, lock, robotsDelay, domainState, pc, held, crawlDelay,
                   requeued, handed, seeds, lastSet, tooSoon, bits, bloomVars,
                   storeVars, delayVars, loopVars, robotsVars, toolVars, gatherVars>>

\* self.process_links(links, url, depth) of crawl_page, for a seed page
ProcessLinks(w, links, parent) ==
    \E rr \in [SeqToSet(NewLinksOf(bits, links)) -> BOOLEAN] :
       ProcessLinksCheck(w, links, parent, 0, rr)

NextLinks ==
    \/ Tick
    \/ \E u \in SeedPages, p \in {100} : SeedUrl(u, p)
    \/ \E w \in Workers, links \in LinkLists, parent \in SeedPages :
          ProcessLinks(w, links, parent)
    \/ \E w \in Workers : ProcessLinksAdd(w)
    \/ \E w \in Workers : ProcessLinksPush(w)
SpecLinks == Init /\ [][NextLinks]_vars

(***************************************************************************)
(* Properties.                                                             *)
(***************************************************************************)
WorkerPops(w) == pc[w] = "idle" /\ pc'[w] = "popped"
WorkerRequeues(w) == pc[w] = "denied" /\ pc'[w] = "idle"

\* C1: on a host, two successful can_crawl calls are never closer together
\* than the crawl delay the earlier one was called with.
C1_LeaseSpacing == \A h \in Hosts : ~tooSoon[h]

\* C2: no two persisted metadata documents carry the same content hash, that
\* is, of two add_page calls with equal bodies only one page is persisted.
C2_ContentDedup ==
    \A m1, m2 \in metaDb : m1.content_hash = m2.content_hash => m1.id = m2.id

\* C3: once flush_batch has returned after its metadata insert_many ran to
\* its end, every metadata document that flush persisted has exactly one
\* content document, also when the content insert failed.
C3_PersistedPairs ==
    \A w \in Workers :
       flushLog[w].state \in {"returned", "content_raised"} =>
          \A id \in flushLog[w].accepted :
             /\ Cardinality({m \in metaDb : m.id = id}) = 1
             /\ Cardinality({c \in contentDb : c.page_id = id}) = 1

\* C4: every content document has a metadata document with its page_id.
C4_NoOrphanContent == \A c \in contentDb : c.page_id \in MetaIds
\* a flush returned with part of its batch rejected and the rest written
C4_Witness ==
    \E w \in Workers :
       /\ flushLog[w].state = "returned"
       /\ flushLog[w].accepted # {}
       /\ flushLog[w].batch \ flushLog[w].accepted # {}
       /\ flushLog[w].accepted \subseteq ContentIds

\* C5: after a flush that returned normally, the documents of the batch whose
\* url the unique index accepted are persisted on both sides, the rejected
\* ones on neither, and pages_stored grew by the number accepted.
C5_PartialBatch ==
    \A w \in Workers :
       flushLog[w].state = "returned" =>
          /\ sstats[w].pages_stored - flushLog[w].before
                = Cardinality(flushLog[w].accepted)
          /\ flushLog[w].accepted \subseteq (MetaIds \cap ContentIds)
          /\ (flushLog[w].batch \ flushLog[w].accepted)
                \cap (MetaIds \cup ContentIds) = {}
\* a batch of two, one url present before and one new, counted as one page
C5_Witness ==
    \E w \in Workers :
       /\ flushLog[w].state = "returned"
       /\ Cardinality(flushLog[w].batch) = 2
       /\ Cardinality(flushLog[w].accepted) = 1
       /\ sstats[w].pages_stored = flushLog[w].before + 1

\* C6: pop is atomic: no member is popped more often than it was inserted,
\* and the popped member is absent from the frontier right after the pop.
C6_AtomicPop ==
    [][/\ \A m \in DOMAIN live' : live'[m] >= 0
       /\ \A w \in Workers :
             WorkerPops(w) => held'[w].json \notin DOMAIN frontier']_vars
\* two workers hold popped entries at once, both gone from the frontier
C6_Witness ==
    /\ \A w \in Workers : pc[w] = "popped" /\ held[w].json \notin DOMAIN frontier
    /\ \E v, w \in Workers : held[v].json # held[w].json

\* C7: a pop returns an entry of maximal priority among the entries in the
\* frontier at that moment, with the score it was stored with.
C7_PopsMaximum ==
    [][\A w \in Workers :
         WorkerPops(w) =>
            /\ held'[w].json \in DOMAIN frontier
            /\ held'[w].priority = frontier[held'[w].json]
            /\ \A m \in DOMAIN frontier : frontier[m] <= held'[w].priority]_vars
\* an entry was popped while an entry of lower priority stayed behind
C7_Witness ==
    \E w \in Workers :
       /\ pc[w] = "popped"
       /\ \E m \in DOMAIN frontier : frontier[m] < held[w].priority

\* C8: when the lease is denied, the popped member itself is back in the
\* frontier after the requeue, with score max(p - 5, 1) for its popped score p.
C8_RequeueExact ==
    [][\A w \in Workers :
         WorkerRequeues(w) =>
            /\ held[w].json \in DOMAIN frontier'
            /\ frontier'[held[w].json] =
                  (IF held[w].priority - 5 >= 1 THEN held[w].priority - 5 ELSE 1)]_vars
\* a requeued entry sits in the frontier at 100 - 5 while its host is leased
C8_Witness ==
    /\ \E w \in Workers : requeued[w] > 0 /\ pc[w] = "idle"
    /\ \E m \in DOMAIN frontier :
          frontier[m] = 95 /\ Locked(ExtractDomain(JsonLoads(m).url))

\* C9: a contains(u) issued after an add(u) or add_batch with u has completed
\* returns true.
C9_NoFalseNegative == \A w \in Workers : lastContains[w].after => lastContains[w].res
\* contains(u) answered true after add(u) completed, while another add is half done
C9_Witness ==
    \E w, v \in Workers :
       /\ lastContains[w].after /\ lastContains[w].res
       /\ bpc[v] = "setting" /\ burl[v] # lastContains[w].url

\* C10: the lease key is created with an expiry of the delay rounded up to
\* whole seconds, at least 1.
C10_LeaseTtlCeil ==
    \A h \in Hosts :
       lastSet[h].set => lastSet[h].ex = Max(CeilSeconds(lastSet[h].delay), 1)

\* C13: under any interleaving of the writers' flushes, at most one metadata
\* document exists for a url, and no content document exists for an id whose
\* metadata document the unique index rejected.
C13_UniqueUrl ==
    /\ \A m1, m2 \in metaDb : m1.url = m2.url => m1.id = m2.id
    /\ \A w \in Workers :
          (flushLog[w].batch \ flushLog[w].accepted) \cap ContentIds = {}
\* a writer is about to insert content after the index rejected a document of
\* its batch, whose url another writer persisted in a flush still under way
C13_Witness ==
    \E w \in Workers :
       /\ spc[w] = "content"
       /\ \E i \in 1..Len(metaBatch[w]) :
             /\ metaBatch[w][i].id \notin MetaIds
             /\ \E m \in metaDb :
                   /\ m.url = metaBatch[w][i].url
                   /\ m.worker_id # w
                   /\ spc[m.worker_id] \in {"meta", "find", "content"}
                   /\ m.id \in SeqIds(metaBatch[m.worker_id])

\* C20: get_crawl_delay returns the robots delay key when it holds a float,
\* otherwise the crawl_delay of the domain state when it holds a float,
\* otherwise the default; and after set_crawl_delay(url, d), with no other
\* write to the keys since, get_crawl_delay(url) returns d.
C20_DelayResolution ==
    [][/\ lastGet' # lastGet =>
            LET h == lastGet'.host IN
            lastGet'.res =
               (IF robotsDelay[h] \in DelayChoices THEN robotsDelay[h]
                ELSE IF domainState[h] \in DelayChoices THEN domainState[h]
                ELSE TicksPerSec)
       /\ \A h \in Hosts :
            (setDelay[h] # 0 /\ lastGet' # lastGet /\ lastGet'.host = h)
               => lastGet'.res = setDelay[h]]_vars
\* a call answered from the domain state under robots text that is no float,
\* and a call after set_crawl_delay whose robots key has expired
C20_Witness ==
    /\ lastGet.host = "a" /\ lastGet.res = domainState["a"]
    /\ robotsDelay["a"] = InvalidText
    /\ setDelay["b"] # 0 /\ robotsDelay["b"] = 0

\* the step is a pull of worker w in which can_crawl returned false
PullDenied(w) == requeued'[w] = requeued[w] + 1

\* C11: a worker is in crawl_page (fetch, parse, persist) only for an entry
\* whose can_crawl returned true in the same iteration; the iteration in
\* which can_crawl returned false changes neither the filter nor the stores
\* nor the page counters, and ends without a crawl.
C11_FetchOnlyAfterLease ==
    [][\A w \in Workers :
         /\ wpc'[w] \in {"crawl", "store", "storing"} => lastCan'[w]
         /\ PullDenied(w) =>
              /\ wpc'[w] \in {"loop", "shutdown"}
              /\ held'[w] = NoEntry
              /\ bits' = bits /\ wstats' = wstats
              /\ metaBatch' = metaBatch /\ metaDb' = metaDb
              /\ contentDb' = contentDb]_vars
\* one worker crawls the entry it leased while the other, denied a lease, has
\* requeued its entry and ended its iteration without holding one
C11_Witness ==
    \E v, w \in Workers :
       /\ wpc[v] = "crawl" /\ lastCan[v]
       /\ Locked(ExtractDomain(JsonLoads(held[v].json).url))
       /\ wpc[w] \in {"loop", "shutdown"} /\ requeued[w] > 0 /\ ~lastCan[w]
       /\ held[w] = NoEntry
       /\ DOMAIN frontier # {}

\* the step is a process_links of worker w that got its robots decisions
ProcessesLinks(w) == wpc[w] = "crawl" /\ wpc'[w] = "store" /\ robotsResults'[w] # EmptyMap
\* the urls of the members the step adds to the frontier
PushedUrls == {JsonLoads(m).url : m \in DOMAIN frontier' \ DOMAIN frontier}

C14_IdleMeansEmpty ==
    \A w \in Workers :
       (idleCount[w] > 0 \/ stopReason[w] = "idle") => ~countedBusy[w]

\* C15: when start() has returned, on whichever path the loop ended, the
\* buffers of the worker's storage writer are empty, and every page ever
\* buffered was handed to a flush or is still buffered by a worker that has
\* not returned.
C15_FlushOnStop ==
    /\ \A w \in Workers :
          wpc[w] = "stopped" => metaBatch[w] = << >> /\ contentBatch[w] = << >>
    /\ \A id \in 1..nextId :
          \/ id \in submitted
          \/ \E w \in Workers : wpc[w] # "stopped" /\ id \in SeqIds(metaBatch[w])
\* the capped worker stopped at its cap and another on KeyboardInterrupt, each
\* with a page that the flush of _shutdown persisted
C15_Witness ==
    \E v, w \in Workers :
       /\ wpc[v] = "stopped" /\ stopReason[v] = "cap"
       /\ wpc[w] = "stopped" /\ stopReason[w] = "interrupt"
       /\ \A x \in {v, w} :
             /\ flushLog[x].state = "returned"
             /\ flushLog[x].accepted # {}
             /\ flushLog[x].accepted \subseteq (MetaIds \cap ContentIds)
             /\ sstats[x].batches_flushed = 1

\* C16: the pages a worker had buffered when SIGTERM arrived are persisted
\* when its process has exited.
C16_SigtermFlushes ==
    \A w \in Workers :
       wpc[w] = "killed" => SeqIds(metaBatch[w]) \subseteq (MetaIds \cap ContentIds)

\* the step is a pull of worker w
PullStep(w) ==
    wpc[w] = "loop" /\ (wpc'[w] = "crawl" \/ idleCount'[w] = idleCount[w] + 1)

\* C17: a worker that was running when the shutdown flag was posted observes
\* the flag between pages: while the flag is present it begins no further
\* iteration of its loop, that is, no pull.
C17_FlagStopsWorkers ==
    [][\A w \in atPost : PullStep(w) => ~FlagPresent]_vars

\* C18: with a page cap, pages_crawled never exceeds the cap, and a worker
\* whose pages_crawled has reached the cap pulls no more.
C18_PageCap ==
    [][\A w \in Workers :
         maxPages'[w] > 0 =>
            /\ wstats'[w].pages_crawled <= maxPages'[w]
            /\ PullStep(w) => wstats[w].pages_crawled < maxPages[w]]_vars
\* the capped worker has stopped at its cap with entries left in the frontier
C18_Witness ==
    \E w \in Workers :
       /\ maxPages[w] > 0 /\ wstats[w].pages_crawled = maxPages[w]
       /\ wpc[w] = "stopped" /\ stopReason[w] = "cap"
       /\ DOMAIN frontier # {}

\* the step is a failure met by worker w inside an iteration of its loop
FailsIn(w) ==
    \/ /\ failures' = failures + 1
       /\ wpc[w] \in LoopStates
       /\ wpc'[w] # wpc[w] \/ idleCount'[w] # idleCount[w] \/ wstats'[w] # wstats[w]
    \/ /\ wpc[w] = "storing"
       /\ flushLog[w].state = "running"
       /\ flushLog'[w].state \in {"meta_raised", "content_raised"}

\* C19: after a failure inside an iteration (Redis error in the pop or the
\* lease, failed fetch, parse error, robots batch error, MongoDB error in
\* add_page or in the flush) the worker is still in its loop, on its way to
\* the next pull.
C19_FailuresContained ==
    [][\A w \in Workers : FailsIn(w) => wpc'[w] \in LoopStates]_vars

\* C21: once the robots fetcher has retrieved a robots.txt with Crawl-delay d
\* for a host, get_crawl_delay for that host returns d.
C21_FetchedDelayUsed ==
    [][\A h \in Hosts :
         (lastGet' # lastGet /\ lastGet'.host = h /\ fetchedDelay[h] # 0)
            => lastGet'.res = fetchedDelay[h]]_vars

\* C22: can_fetch_batch decides every url it is given; the decision is true
\* for a url without a host and for a host without a parser (robots.txt
\* absent, both protocols failed, the fetch task raised), and otherwise is
\* what the host's parser answers.
C22_BatchDecisions ==
    /\ DOMAIN lastBatch.results = lastBatch.urls
    /\ \A u \in lastBatch.urls :
          LET d == RobotsDomain(u) IN
          IF d = "" THEN lastBatch.results[u]
          ELSE /\ (d \in DOMAIN lastBatch.cause
                     /\ lastBatch.cause[d] \in {"absent", "failed", "raised"})
                     => lastBatch.parsers[d] = 0
               /\ lastBatch.parsers[d] = 0 => lastBatch.results[u]
               /\ lastBatch.parsers[d] # 0 =>
                     (lastBatch.results[u] <=> u \notin DisallowOf(lastBatch.parsers[d]))
\* one batch refused a url by the parser it fetched and allowed another whose
\* host's fetch failed on both protocols
C22_Witness ==
    \E u, v \in lastBatch.urls :
       /\ {RobotsDomain(u), RobotsDomain(v)} \subseteq DOMAIN lastBatch.cause
       /\ ~lastBatch.results[u] /\ lastBatch.cause[RobotsDomain(u)] = "fetched"
       /\ lastBatch.results[v] /\ lastBatch.cause[RobotsDomain(v)] = "failed"

\* C23: after a flush that stored its batch the writer's statistics satisfy
\* bytes_compressed <= bytes_original.
C23_CompressedSmaller ==
    \A w \in Workers :
       (flushLog[w].state = "returned" /\ sstats[w].batches_flushed > 0)
          => sstats[w].bytes_compressed <= sstats[w].bytes_original

\* C24: no add, add_batch or contains issued during a crawl changes a set
\* bit of the filter back to 0.
C24_BitsMonotonic == [][bits \subseteq bits']_vars
\* after three urls were added, by add and by add_batch, and read by
\* contains, a further add is between its two pipelines
C24_Witness ==
    /\ Cardinality(added) = NumUrls
    /\ lastAddBatch.called /\ lastAddBatch.urls # {}
    /\ \E w \in Workers : lastContains[w].res
    /\ \E w \in Workers : bpc[w] = "setting"

\* the step is the first pipeline of an add(u) by client w
AddReads(w) == bpc[w] = "idle" /\ bpc'[w] = "setting"
\* the step is the second pipeline of an add(u) by client w, which returns
AddWrites(w) == bpc[w] = "setting" /\ bpc'[w] = "idle"

\* C25: add(u) returns true (not already_exists) iff one of u's positions was
\* unset when add read them; an add of a url whose add has completed returns
\* false; when add returns, all positions of u are set.
C25_AddReturnsNew ==
    [][\A w \in Workers :
         /\ AddReads(w) =>
               /\ ~bexists'[w] <=> (\E i \in GetPositions(burl'[w]) : i \notin bits)
               /\ burl'[w] \in added => bexists'[w]
         /\ AddWrites(w) => GetPositions(burl[w]) \subseteq bits']_vars
\* a second add of a url is about to return false, and another add, of a url
\* with one position set by it and one unset, is about to return true
C25_Witness ==
    \E v, w \in Workers :
       /\ bpc[v] = "setting" /\ bexists[v] /\ burl[v] \in added
       /\ bpc[w] = "setting" /\ ~bexists[w]
       /\ GetPositions(burl[w]) \cap bits # {}
       /\ ~(GetPositions(burl[w]) \subseteq bits)

\* C26: add_batch returns the number of urls of the batch that the filter did
\* not contain before the call.
C26_AddBatchCount ==
    lastAddBatch.called => lastAddBatch.ret = Cardinality(lastAddBatch.fresh)

\* the step is a run of fix_collection_sync
RunsFix == fixRuns' = fixRuns + 1

\* C27: a run of the reconciliation with no writer inside a flush deletes
\* exactly the content documents whose page_id has no metadata and the
\* metadata documents whose id has no content; no orphan is left on either
\* side, the other documents are unchanged, and a run that follows a run
\* deletes nothing.
C27_Reconciliation ==
    [][RunsFix =>
         /\ contentDb' = {c \in contentDb : \E m \in metaDb : m.id = c.page_id}
         /\ metaDb' = {m \in metaDb : \E c \in contentDb : c.page_id = m.id}
         /\ {m.id : m \in metaDb'} = {c.page_id : c \in contentDb'}
         /\ MetaIds = ContentIds => (metaDb' = metaDb /\ contentDb' = contentDb)]_vars
\* after two runs pairs are left in the collections, and a metadata document
\* that a failed content insert had left without content is gone
C27_Witness ==
    /\ fixRuns = MaxFixRuns
    /\ MetaIds # {} /\ MetaIds = ContentIds
    /\ \E w \in Workers :
          /\ flushLog[w].state = "content_raised"
          /\ \E id \in flushLog[w].accepted : id \notin MetaIds

\* the step is the return of a flush_batch of writer w
FlushReturns(w) == spc[w] # "ready" /\ spc'[w] = "ready"

\* C28: when flush_batch returns, after inserts that succeeded, that met
\* duplicate urls, or that raised another error, both buffers are empty and
\* the call has returned to its caller.
C28_FlushClears ==
    [][\A w \in Workers :
         FlushReturns(w) =>
            /\ metaBatch'[w] = << >> /\ contentBatch'[w] = << >>
            /\ flushLog'[w].state \in {"returned", "meta_raised", "content_raised"}]_vars
\* one writer's flush has returned after its metadata insert raised, the
\* other's after it stored a part of its batch, the rest being duplicates
C28_Witness ==
    \E v, w \in Workers :
       /\ flushLog[v].state = "meta_raised" /\ flushLog[v].batch # {}
       /\ metaBatch[v] = << >> /\ contentBatch[v] = << >>
       /\ flushLog[w].state = "returned"
       /\ flushLog[w].accepted # {} /\ flushLog[w].accepted # flushLog[w].batch
       /\ metaBatch[w] = << >> /\ contentBatch[w] = << >>

\* C29: no worker whose pull met no error leaves its loop for idleness while
\* an entry, requeued after a denied lease or never popped, is in the
\* frontier.
C29_NoQuitWhileQueued ==
    [][\A w \in Workers :
         (stopReason[w] = "none" /\ stopReason'[w] = "idle" /\ failures' = failures)
            => DOMAIN frontier' = {}]_vars

\* C30: an entry that a pull removes from the frontier is returned to the
\* worker for crawling; an entry that is not returned is in the frontier
\* after the pull, requeued.
C30_PoppedNotLost ==
    [][\A m \in DOMAIN frontier :
         m \notin DOMAIN frontier' => \E w \in Workers : held'[w].json = m]_vars

\* the worker holds the lease of host h and its crawl_page (fetch_page first)
\* has not returned
FetchingFrom(w, h) ==
    pc[w] = "leased" /\ ExtractDomain(JsonLoads(held[w].json).url) = h

\* C31: at any instant at most one worker is fetching from a host: while the
\* worker that acquired the lease of a host is still in its fetch, no other
\* worker acquires the lease of that host and starts a fetch from it.
C31_OneFetchPerHost ==
    \A h \in Hosts : \A v, w \in Workers :
       FetchingFrom(v, h) /\ FetchingFrom(w, h) => v = w

\* C32: within one process_links call a url gets at most one frontier entry,
\* even when the list of links holds it several times, and a url the filter
\* contained when the call started is not pushed.
C32_PushedOnce ==
    \A w \in Workers :
       /\ \A m1, m2 \in procLinks[w].pushed : m1[1] = m2[1] => m1 = m2
       /\ \A m \in procLinks[w].pushed : ~AllBits(procLinks[w].before, m[1])

\* C33: requeueing never raises an entry's priority: whatever priority the
\* entry was popped with, seed priorities below 1.0 included, the priority
\* it is re-inserted with is less than or equal to it.
C33_RequeueNeverRaises ==
    [][\A w \in Workers :
         WorkerRequeues(w) =>
            frontier'[RequeueMember(held[w].json)] <= held[w].priority]_vars

\* C34: the url of every frontier entry is contained in the filter, and an
\* entry is created only for a url the filter did not contain when it was
\* checked (by seed_urls in the same iteration, by process_links in its
\* step 2): the filter add of a url completes before its entry is pushed.
C34_FrontierInFilter ==
    [][/\ \A m \in DOMAIN frontier' : AllBits(bits', JsonLoads(m).url)
       /\ \A m \in DOMAIN frontier' \ DOMAIN frontier :
            IF seeds' # seeds
            THEN ~AllBits(bits, JsonLoads(m).url)
            ELSE \E w \in Workers :
                    /\ m \in procLinks'[w].pushed
                    /\ ~AllBits(procLinks[w].before, JsonLoads(m).url)]_vars
\* a seeded entry and a pushed link are in the frontier while a worker stands
\* between the filter add and the ZADD of its next link
C34_Witness ==
    /\ \E m \in DOMAIN frontier : JsonLoads(m).depth = 0
    /\ \E m \in DOMAIN frontier : JsonLoads(m).depth = 1
    /\ \E w \in Workers :
          /\ procLinks[w].pos = "pushing"
          /\ AllBits(bits, procLinks[w].new_links[procLinks[w].i])
          /\ ~AllBits(procLinks[w].before, procLinks[w].new_links[procLinks[w].i])

\* fetch_page returned None for the leased entry of worker w
FetchFailed(w) == \E out \in FetchFailures : CrawlFetch(w, out)

\* C35: when the fetch of a leased url fails (timeout, error, non-HTML
\* content), crawl_page returns without add_page, the entry is not put back
\* into the frontier, nothing reaches the storage writer's buffers, the url
\* is still contained in the filter and the host's lease key is left as it is.
C35_FailedFetchDropped ==
    [][\A w \in Workers :
         FetchFailed(w) =>
            /\ wpc'[w] = "loop"
            /\ frontier' = frontier
            /\ metaBatch' = metaBatch /\ contentBatch' = contentBatch
            /\ metaDb' = metaDb /\ contentDb' = contentDb
            /\ AllBits(bits', JsonLoads(held[w].json).url)
            /\ lock' = lock]_vars
\* the fetch of the seed page timed out: its worker is back in the loop, the
\* host is still leased, the frontier and the buffers are empty
C35_Witness ==
    \E w \in Workers :
       /\ wstats[w].timeouts = 1 /\ wpc[w] = "loop" /\ held[w] = NoEntry
       /\ \E h \in Hosts : Locked(h)
       /\ \A u \in SeedPages : AllBits(bits, u)
       /\ frontier = EmptyMap
       /\ \A v \in Workers : metaBatch[v] = << >>
       /\ metaDb = {}

\* C36: concurrent filter writes commute: whatever the interleaving of the
\* pipelines of the workers' add and add_batch calls, the bitmap is the union
\* of the bit positions of the urls whose add has completed.
C36_WritesCommute == bits = UNION {GetPositions(u) : u \in added}
\* a worker stands between the two pipelines of add(u), having read an unset
\* bit, while an add_batch of another call has set the bits of u
C36_Witness ==
    \E w \in Workers :
       /\ bpc[w] = "setting" /\ ~bexists[w]
       /\ AllBits(bits, burl[w])
       /\ lastAddBatch.called /\ burl[w] \in lastAddBatch.urls
       /\ added # lastAddBatch.urls

\* a step that is a can_fetch_batch call
RunsBatch == batches' = batches + 1

\* C37: in a robots batch a host resolved by a fresh in-process entry or by a
\* shared-cache hit is not fetched, every other host of the batch is fetched
\* by one task, and after a fetch that ended in HTTP 200 the shared cache
\* holds the content retrieved, live for cache_ttl, so that a batch of
\* another worker resolves the host from it.
C37_CacheTiers ==
    [][RunsBatch =>
         LET b == lastBatch' IN
         /\ \A d \in DomainsOf(b.urls) :
               d \in DOMAIN b.cause <=> ~LocalFresh(b.w, d) /\ ~RedisCached(d)
         /\ \A d \in DOMAIN b.cause :
               b.cause[d] = "fetched" =>
                  /\ robotsCache'[d].content = b.parsers[d]
                  /\ robotsCache'[d].exp = now + CacheTtl * TicksPerSec]_vars

\* C38: while a handler waits for its batch every task of the batch has been
\* started, whatever the others did, the batch is over only when every task
\* has returned or raised, and each host is then given what its own task
\* brought back, a task that raised next to it or not.
C38_TasksConcurrent ==
    \A w \in Workers :
        LET g == gather[w]
        IN  /\ g.state = "waiting" =>
                 \A d \in DOMAIN g.tasks : g.tasks[d].st # "pending"
            /\ (g.state = "idle" /\ DOMAIN g.tasks # {}) =>
                 /\ \A d \in DOMAIN g.tasks :
                       g.tasks[d].st \in {"returned", "raised"}
                 /\ lastBatch.w = w =>
                       \A d \in DOMAIN g.tasks :
                          /\ lastBatch.cause[d] = CauseOf(Outcome(g.tasks[d]))
                          /\ g.tasks[d].st = "returned" =>
                                lastBatch.parsers[d] =
                                    FetchRobotsForDomain(Outcome(g.tasks[d]))
\* a batch of two hosts is over: one task raised, the other retrieved a file
C38_Witness ==
    \E w \in Workers :
        /\ gather[w].state = "idle"
        /\ lastBatch.w = w
        /\ \E d, e \in DOMAIN gather[w].tasks :
              /\ gather[w].tasks[d].st = "raised"
              /\ gather[w].tasks[e].st = "returned"
              /\ lastBatch.parsers[e] # 0
\* two tasks of one batch in flight, one having raised while the other runs
C38_InFlight ==
    \E w \in Workers :
        /\ gather[w].state = "waiting"
        /\ \E d, e \in DOMAIN gather[w].tasks :
              /\ gather[w].tasks[d].st = "raised"
              /\ gather[w].tasks[e].st = "running"

\* C39: whenever a writer is outside its calls, so after every return of
\* add_page, its metadata and content buffers have the same length and that
\* length is below batch_size.  A call that a KeyboardInterrupt tore down did
\* not return.
C39_BuffersBelowBatchSize ==
    \A w \in Workers :
        (spc[w] = "ready" /\ flushLog[w].state # "interrupted") =>
            /\ Len(metaBatch[w]) = Len(contentBatch[w])
            /\ Len(metaBatch[w]) < BatchSize
\* add_page has returned True after the flush it triggered on a full batch
C39_Witness ==
    \E w \in Workers :
        /\ spc[w] = "ready"
        /\ addRet[w] = "true"
        /\ Cardinality(flushLog[w].batch) = BatchSize
        /\ flushLog[w].state # "running"
        /\ metaBatch[w] = << >>

\* C40: no step changes or removes the lease key of a host while the key
\* exists: the key of a leased host is the same after every step, so it goes
\* away only when time reaches its expiry, whatever became of the crawl.
C40_LeaseLeftToExpire ==
    [][\A h \in Hosts : now < lock[h] => lock'[h] = lock[h]]_vars

\* a worker crawled a page, went through its shutdown and stopped, and the
\* lease it took for the page's host is still in place
C40_Witness ==
    \E w \in Workers, h \in Hosts :
        /\ wpc[w] = "stopped"
        /\ wstats[w].pages_crawled >= 1
        /\ now < lock[h]
====
